---- MODULE Spec2Model ----
(***************************************************************************)
(* Model of the scheduling + conversation engine of the SMS chatbot:       *)
(*   app/services/scheduling_service.py   (Booking Engine / Slot Store)    *)
(*   app/services/conversation_service.py (Conversation State Machine)     *)
(*   app/services/sms_service.py          (inbound path, Outbound Channel) *)
(*   app/core/compliance.py               (Compliance Gate)                *)
(* The storage layer is PostgreSQL at READ COMMITTED: the writes of a      *)
(* transaction become visible together when it commits, SELECT ... FOR     *)
(* UPDATE takes a row lock held until commit or rollback, and the partial  *)
(* unique index idx_appointments_active_slot is enforced on every write.   *)
(***************************************************************************)
EXTENDS Integers, Sequences, FiniteSets, TLC

\* ---------------------------------------------------------------- bounds
NumSlots == 2
NumPhones == 1
NumProcs == 2
MaxAppts == 4
MaxJobs == 5
MaxMessages == 4
MaxCycles == 1
MaxBurst == 2
MaxRivals == 2
MaxTime == 4
MaxSweepMessages == 2

Slots == 1..NumSlots
Phones == 1..NumPhones
Procs == 1..NumProcs
ApptIds == 1..MaxAppts
\* The server processes a call can run in; each has its own SchedulingService
\* singleton and so its own _slot_locks map.
Servers == {"s1", "s2"}
Reasons == {"none", "admin"}

\* Keys of SchedulingService._slot_locks: str(slot_id) and str(appointment_id).
SlotKey(s) == <<"slot", s>>
ApptKey(a) == <<"appt", a>>
LockKeys == {SlotKey(s) : s \in Slots} \cup {ApptKey(a) : a \in ApptIds}

VARIABLES
  is_available,   \* AvailabilitySlot.is_available of every slot (committed)
  appointments,   \* the appointments table (committed); the id is the index
  slotRow,        \* row lock (FOR UPDATE) on each slot: holder or 0
  apptRow,        \* row lock (FOR UPDATE) on each appointment: holder or 0
  slot_locks,     \* per server: SchedulingService._slot_locks, holder or 0
  pc,             \* position of every worker
  job,            \* the call a worker is running, with its locals
  serverOf,       \* the server process each worker runs in
  jobs,           \* number of calls started so far
  contacts,       \* Contact.opt_in_status by phone number ("none": no row)
  conv,           \* ConversationState row of each contact (committed)
  lock,           \* Redis key conversation_lock:{phone} exists
  messages,       \* number of inbound messages taken up so far
  now,            \* the clock, in hours
  sweep,          \* the expire_conversations task: position and rows loaded
  outbox,         \* the outbound rows of the messages table (committed)
  retry,          \* the retry_failed_sends task: position and rows loaded
  hook,           \* POST /inbound: requests in flight, message:<sid> keys, tasks added
  query,          \* a slot table with its times, and the last query made on it
  campaign        \* a campaign: its row, its recipients, the queued batch jobs, the running batch

bookingVars == <<is_available, appointments, slotRow, apptRow, slot_locks>>
clock == <<now, sweep>>
mail == <<outbox, retry, hook, query, campaign>>
env == <<serverOf, contacts, conv, lock, messages, clock, mail>>
vars == <<is_available, appointments, slotRow, apptRow, slot_locks, pc, job, jobs, env>>

\* ------------------------------------------------------------ data model
\* The context dict of a ConversationState, by the keys the handlers use
\* (0 and << >> stand for an absent key).
EmptyContext ==
  [presented_slots |-> << >>, selected_slot_id |-> 0, retry_count |-> 0,
   pending_appointment_id |-> 0, original_appointment_id |-> 0]

\* No ConversationState row for the contact yet.
NoState ==
  [current_state |-> "absent", context |-> EmptyContext,
   last_message_at |-> 0, expires_at |-> 0]
\* ConversationState(current_state="idle", context={}) of _get_or_create_state.
FreshState ==
  [current_state |-> "idle", context |-> EmptyContext,
   last_message_at |-> 0, expires_at |-> 0]

JobNone ==
  [kind |-> "none", op |-> "none", contact |-> 0,
   slot |-> 0, appt |-> 0, reason |-> "none", oldSlot |-> 0,
   result |-> "none", newAppt |-> 0, issued |-> "none",
   phone |-> 0, body |-> "none", lockAcq |-> FALSE, loaded |-> NoState,
   created |-> FALSE, intent |-> "none", parsed |-> -1, next |-> NoState,
   reply |-> "", aiCalls |-> 0, sends |-> 0, attempt |-> 0, sent |-> "none",
   response |-> [kind |-> "none", status |-> 0, code |-> ""],
   force |-> FALSE,
   ignored |-> FALSE, committed |-> FALSE, error |-> "none"]

NewAppointment(contact_id, slot_id, from_id) ==
  [contact |-> contact_id, slot |-> slot_id, status |-> "confirmed",
   version |-> 1, rescheduled_from_id |-> from_id,
   cancelled_at |-> FALSE, cancellation_reason |-> "none"]

\* Rows covered by the partial unique index on appointments(slot_id).
IndexedStatus(status) == status \in {"confirmed", "rescheduled"}

ActiveSlotIndexOkNoIndex(appts) == TRUE

\* idx_appointments_active_slot: UNIQUE (slot_id) WHERE status IN
\* ('confirmed', 'rescheduled').
ActiveSlotIndexOk(appts) ==
  \A i, j \in DOMAIN appts :
    (i # j /\ IndexedStatus(appts[i].status) /\ IndexedStatus(appts[j].status))
      => appts[i].slot # appts[j].slot

Min(a, b) == IF a <= b THEN a ELSE b
Max(a, b) == IF a <= b THEN b ELSE a

\* The positions inside a Booking Engine call.
CallPcs ==
  {"bk_lock", "bk_select", "bk_flush", "cn_select_appt", "cn_select_slot", "cn_flush",
   "rs_lock_appt", "rs_select_appt", "rs_lock_first", "rs_lock_second",
   "rs_select_old", "rs_select_new", "rs_flush"}

\* Calls in flight that may still insert an appointment row.
Inserting == {q \in Procs : job[q].op \in {"book", "reschedule"} /\ pc[q] \in CallPcs}
RoomForInsert == Len(appointments) + Cardinality(Inserting) < MaxAppts

\* Webhook deliveries the provider makes, and the MessageSids they carry.
MaxDeliveries == 3
Deliveries == 1..MaxDeliveries
Sids == {"SM1", "SM2"}

\* No request in flight, no key in Redis, no background task added.
NoHook ==
  [req |-> [d \in Deliveries |-> [pc |-> "none", sid |-> ""]],
   keys |-> {},
   tasks |-> [sid \in Sids |-> 0]]

\* No slot table with times is kept, and no query was made on it.
NoCall ==
  [fn |-> "none", date_from |-> 0, date_to |-> 0, provider_id |-> "none",
   limit |-> 0, exclude_slot_ids |-> {}, result |-> << >>]
NoQuery == [store |-> << >>, call |-> NoCall]

\* No campaign exists.
NoRun == [pc |-> "idle", offset |-> 0, recipients |-> << >>, i |-> 0, delayed |-> FALSE]
NoCampaign ==
  [status |-> "none", recipients |-> << >>, contacts |-> << >>, queue |-> << >>,
   run |-> NoRun, pauses |-> 0]

\* The store after construction: every slot open, nothing booked, no call
\* running.  By the symmetry of the servers worker 1 runs in "s1".
InitStore ==
  /\ is_available = [s \in Slots |-> TRUE]
  /\ appointments = << >>
  /\ slotRow = [s \in Slots |-> 0]
  /\ apptRow = [a \in ApptIds |-> 0]
  /\ slot_locks = [sv \in Servers |-> [k \in LockKeys |-> 0]]
  /\ pc = [p \in Procs |-> "idle"]
  /\ job = [p \in Procs |-> JobNone]
  /\ serverOf \in {f \in [Procs -> Servers] : f[1] = "s1"}
  /\ jobs = 0
  /\ conv = [ph \in Phones |-> NoState]
  /\ now = 1
  /\ sweep = [pc |-> "idle", expired |-> {}]
  /\ outbox = [tracked |-> FALSE, rows |-> << >>]
  /\ retry = [pc |-> "idle", queued |-> {}]
  /\ hook = NoHook
  /\ query = NoQuery
  /\ campaign = NoCampaign
  /\ lock = [ph \in Phones |-> FALSE]
  /\ messages = 0

Init ==
  /\ InitStore
  /\ contacts = [ph \in Phones |-> "opted_in"]

\* ------------------------------------------------ leaving the booking call
\* Where control goes when a Booking Engine call returns or raises.
AfterCall(p) == IF job[p].kind = "admin" THEN "done" ELSE "pim_after"

ReleaseRows(p) ==
  /\ slotRow' = [s \in Slots |-> IF slotRow[s] = p THEN 0 ELSE slotRow[s]]
  /\ apptRow' = [a \in ApptIds |-> IF apptRow[a] = p THEN 0 ELSE apptRow[a]]

ReleaseAppLocks(p) ==
  slot_locks' = [slot_locks EXCEPT ![serverOf[p]] =
                   [k \in LockKeys |-> IF @[k] = p THEN 0 ELSE @[k]]]

\* The call raises: the transaction rolls back, every lock is released.
Raise(p, error) ==
  /\ ReleaseRows(p)
  /\ ReleaseAppLocks(p)
  /\ pc' = [pc EXCEPT ![p] = AfterCall(p)]
  /\ job' = [job EXCEPT ![p].result = error]
  /\ UNCHANGED <<is_available, appointments, env, jobs>>

\* ------------------------------------------------------- admin entry points
\* The status of the appointment a call is issued for, as the caller sees it.
StatusOf(a) == IF a \in DOMAIN appointments THEN appointments[a].status ELSE "missing"

StartBook(p) ==
  /\ pc[p] = "idle" /\ jobs < MaxJobs /\ RoomForInsert
  /\ \E c \in Phones, s \in Slots :
       job' = [job EXCEPT ![p] = [JobNone EXCEPT !.kind = "admin", !.op = "book", !.contact = c, !.slot = s]]
  /\ pc' = [pc EXCEPT ![p] = "bk_lock"]
  /\ jobs' = jobs + 1
  /\ UNCHANGED <<bookingVars, env>>

StartCancel(p) ==
  /\ pc[p] = "idle" /\ jobs < MaxJobs
  /\ \E a \in 1..Min(Len(appointments) + 1, MaxAppts), r \in Reasons :
       job' = [job EXCEPT ![p] = [JobNone EXCEPT !.kind = "admin", !.op = "cancel", !.appt = a,
                                                 !.reason = r, !.issued = StatusOf(a)]]
  /\ pc' = [pc EXCEPT ![p] = "cn_select_appt"]
  /\ jobs' = jobs + 1
  /\ UNCHANGED <<bookingVars, env>>

StartReschedule(p) ==
  /\ pc[p] = "idle" /\ jobs < MaxJobs /\ RoomForInsert
  /\ \E a \in 1..Min(Len(appointments) + 1, MaxAppts), s \in Slots :
       job' = [job EXCEPT ![p] = [JobNone EXCEPT !.kind = "admin", !.op = "reschedule", !.appt = a,
                                                 !.slot = s, !.issued = StatusOf(a)]]
  /\ pc' = [pc EXCEPT ![p] = "rs_lock_appt"]
  /\ jobs' = jobs + 1
  /\ UNCHANGED <<bookingVars, env>>

\* The caller has consumed the outcome of its call.
Finish(p) ==
  /\ pc[p] = "done"
  /\ pc' = [pc EXCEPT ![p] = "idle"]
  /\ job' = [job EXCEPT ![p] = JobNone]
  /\ UNCHANGED <<bookingVars, env, jobs>>

\* ---------------------------------------------------------- book_appointment
\* async with self._slot_locks[str(slot_id)]
BookLock(p) ==
  /\ pc[p] = "bk_lock"
  /\ slot_locks[serverOf[p]][SlotKey(job[p].slot)] = 0
  /\ slot_locks' = [slot_locks EXCEPT ![serverOf[p]][SlotKey(job[p].slot)] = p]
  /\ pc' = [pc EXCEPT ![p] = "bk_select"]
  /\ UNCHANGED <<is_available, appointments, slotRow, apptRow, job, env, jobs>>

\* SELECT slot FOR UPDATE, then the availability check.
BookSelect(p) ==
  /\ pc[p] = "bk_select"
  /\ slotRow[job[p].slot] = 0
  /\ IF ~is_available[job[p].slot]
       THEN Raise(p, "SlotUnavailableError")
       ELSE /\ slotRow' = [slotRow EXCEPT ![job[p].slot] = p]
            /\ pc' = [pc EXCEPT ![p] = "bk_flush"]
            /\ UNCHANGED <<is_available, appointments, apptRow, slot_locks, job, env, jobs>>

BookWrites(p) ==
  [avail |-> [is_available EXCEPT ![job[p].slot] = FALSE],
   appts |-> Append(appointments, NewAppointment(job[p].contact, job[p].slot, 0))]

\* slot.is_available = False; INSERT appointment; flush; commit.
BookFlush(p) ==
  /\ pc[p] = "bk_flush"
  /\ LET w == BookWrites(p) IN
       IF ActiveSlotIndexOk(w.appts)
         THEN /\ is_available' = w.avail
              /\ appointments' = w.appts
              /\ ReleaseRows(p)
              /\ ReleaseAppLocks(p)
              /\ pc' = [pc EXCEPT ![p] = AfterCall(p)]
              /\ job' = [job EXCEPT ![p].result = "ok", ![p].newAppt = Len(w.appts)]
              /\ UNCHANGED <<env, jobs>>
         ELSE Raise(p, "IntegrityError")

\* -------------------------------------------------------- cancel_appointment
\* SELECT appointment FOR UPDATE
CancelSelectAppt(p) ==
  /\ pc[p] = "cn_select_appt"
  /\ IF job[p].appt \notin DOMAIN appointments
       THEN Raise(p, "ValueError")
       ELSE /\ apptRow[job[p].appt] = 0
            /\ apptRow' = [apptRow EXCEPT ![job[p].appt] = p]
            /\ job' = [job EXCEPT ![p].oldSlot = appointments[job[p].appt].slot]
            /\ pc' = [pc EXCEPT ![p] = "cn_select_slot"]
            /\ UNCHANGED <<is_available, appointments, slotRow, slot_locks, env, jobs>>

\* SELECT linked slot FOR UPDATE
CancelSelectSlot(p) ==
  /\ pc[p] = "cn_select_slot"
  /\ slotRow[job[p].oldSlot] = 0
  /\ slotRow' = [slotRow EXCEPT ![job[p].oldSlot] = p]
  /\ pc' = [pc EXCEPT ![p] = "cn_flush"]
  /\ UNCHANGED <<is_available, appointments, apptRow, slot_locks, job, env, jobs>>

\* A variant that leaves the slot of the cancelled appointment unavailable.
CancelWritesKeepSlot(p) ==
  [avail |-> is_available,
   appts |-> [appointments EXCEPT ![job[p].appt] =
                [@ EXCEPT !.status = "cancelled", !.cancelled_at = TRUE,
                          !.cancellation_reason = job[p].reason,
                          !.version = @ + 1]]]

CancelWritesNoVersion(p) ==
  [avail |-> [is_available EXCEPT ![job[p].oldSlot] = TRUE],
   appts |-> [appointments EXCEPT ![job[p].appt] =
                [@ EXCEPT !.status = "cancelled", !.cancelled_at = TRUE,
                          !.cancellation_reason = job[p].reason]]]

CancelWrites(p) ==
  [avail |-> [is_available EXCEPT ![job[p].oldSlot] = TRUE],
   appts |-> [appointments EXCEPT ![job[p].appt] =
                [@ EXCEPT !.status = "cancelled", !.cancelled_at = TRUE,
                          !.cancellation_reason = job[p].reason,
                          !.version = @ + 1]]]

CancelFlush(p) ==
  /\ pc[p] = "cn_flush"
  /\ LET w == CancelWrites(p) IN
       IF ActiveSlotIndexOk(w.appts)
         THEN /\ is_available' = w.avail
              /\ appointments' = w.appts
              /\ ReleaseRows(p)
              /\ ReleaseAppLocks(p)
              /\ pc' = [pc EXCEPT ![p] = AfterCall(p)]
              /\ job' = [job EXCEPT ![p].result = "ok"]
              /\ UNCHANGED <<env, jobs>>
         ELSE Raise(p, "IntegrityError")

\* ---------------------------------------------------- reschedule_appointment
\* async with self._slot_locks[str(appointment_id)]
RescheduleLockAppt(p) ==
  /\ pc[p] = "rs_lock_appt"
  /\ slot_locks[serverOf[p]][ApptKey(job[p].appt)] = 0
  /\ slot_locks' = [slot_locks EXCEPT ![serverOf[p]][ApptKey(job[p].appt)] = p]
  /\ pc' = [pc EXCEPT ![p] = "rs_select_appt"]
  /\ UNCHANGED <<is_available, appointments, slotRow, apptRow, job, env, jobs>>

\* SELECT appointment FOR UPDATE, to read a stable old slot id
RescheduleSelectAppt(p) ==
  /\ pc[p] = "rs_select_appt"
  /\ IF job[p].appt \notin DOMAIN appointments
       THEN Raise(p, "ValueError")
       ELSE /\ apptRow[job[p].appt] = 0
            /\ apptRow' = [apptRow EXCEPT ![job[p].appt] = p]
            /\ job' = [job EXCEPT ![p].oldSlot = appointments[job[p].appt].slot]
            /\ pc' = [pc EXCEPT ![p] = "rs_lock_first"]
            /\ UNCHANGED <<is_available, appointments, slotRow, slot_locks, env, jobs>>

\* slot_lock_keys = sorted([old, new]); enter the first of them
RescheduleLockFirst(p) ==
  /\ pc[p] = "rs_lock_first"
  /\ LET k == SlotKey(Min(job[p].oldSlot, job[p].slot)) IN
       /\ slot_locks[serverOf[p]][k] = 0
       /\ slot_locks' = [slot_locks EXCEPT ![serverOf[p]][k] = p]
  /\ pc' = [pc EXCEPT ![p] = "rs_lock_second"]
  /\ UNCHANGED <<is_available, appointments, slotRow, apptRow, job, env, jobs>>

\* ... then the second; asyncio.Lock is not reentrant, so a key the call
\* already holds (old slot = new slot) is never granted.
RescheduleLockSecond(p) ==
  /\ pc[p] = "rs_lock_second"
  /\ LET k == SlotKey(Max(job[p].oldSlot, job[p].slot)) IN
       /\ slot_locks[serverOf[p]][k] = 0
       /\ slot_locks' = [slot_locks EXCEPT ![serverOf[p]][k] = p]
  /\ pc' = [pc EXCEPT ![p] = "rs_select_old"]
  /\ UNCHANGED <<is_available, appointments, slotRow, apptRow, job, env, jobs>>

\* SELECT old slot FOR UPDATE
RescheduleSelectOld(p) ==
  /\ pc[p] = "rs_select_old"
  /\ slotRow[job[p].oldSlot] = 0
  /\ slotRow' = [slotRow EXCEPT ![job[p].oldSlot] = p]
  /\ pc' = [pc EXCEPT ![p] = "rs_select_new"]
  /\ UNCHANGED <<is_available, appointments, apptRow, slot_locks, job, env, jobs>>

\* SELECT new slot FOR UPDATE, then the availability check
RescheduleSelectNew(p) ==
  /\ pc[p] = "rs_select_new"
  /\ slotRow[job[p].slot] \in {0, p}
  /\ IF ~is_available[job[p].slot]
       THEN Raise(p, "SlotUnavailableError")
       ELSE /\ slotRow' = [slotRow EXCEPT ![job[p].slot] = p]
            /\ pc' = [pc EXCEPT ![p] = "rs_flush"]
            /\ UNCHANGED <<is_available, appointments, apptRow, slot_locks, job, env, jobs>>

RescheduleWritesKeepOld(p) ==
  LET old == appointments[job[p].appt] IN
  [avail |-> [is_available EXCEPT ![job[p].slot] = FALSE],
   appts |-> Append([appointments EXCEPT ![job[p].appt] =
                       [@ EXCEPT !.status = "rescheduled", !.version = @ + 1]],
                    NewAppointment(old.contact, job[p].slot, job[p].appt))]

RescheduleWrites(p) ==
  LET old == appointments[job[p].appt] IN
  [avail |-> [is_available EXCEPT ![job[p].oldSlot] = TRUE, ![job[p].slot] = FALSE],
   appts |-> Append([appointments EXCEPT ![job[p].appt] =
                       [@ EXCEPT !.status = "rescheduled", !.version = @ + 1]],
                    NewAppointment(old.contact, job[p].slot, job[p].appt))]

RescheduleFlush(p) ==
  /\ pc[p] = "rs_flush"
  /\ LET w == RescheduleWrites(p) IN
       IF ActiveSlotIndexOk(w.appts)
         THEN /\ is_available' = w.avail
              /\ appointments' = w.appts
              /\ ReleaseRows(p)
              /\ ReleaseAppLocks(p)
              /\ pc' = [pc EXCEPT ![p] = AfterCall(p)]
              /\ job' = [job EXCEPT ![p].result = "ok", ![p].newAppt = Len(w.appts)]
              /\ UNCHANGED <<env, jobs>>
         ELSE Raise(p, "IntegrityError")

\* ------------------------------------------------------ storage deadlocks
\* The row a call is waiting for, when another transaction holds it.
WaitsFor(p, q) ==
  /\ p # q
  /\ \/ pc[p] = "bk_select" /\ slotRow[job[p].slot] = q
     \/ pc[p] \in {"cn_select_appt", "rs_select_appt"}
          /\ job[p].appt \in DOMAIN appointments /\ apptRow[job[p].appt] = q
     \/ pc[p] \in {"cn_select_slot", "rs_select_old"} /\ slotRow[job[p].oldSlot] = q
     \/ pc[p] = "rs_select_new" /\ slotRow[job[p].slot] = q

RECURSIVE Reaches(_, _, _)
Reaches(p, q, n) ==
  \/ WaitsFor(p, q)
  \/ n > 0 /\ \E r \in Procs : WaitsFor(p, r) /\ Reaches(r, q, n - 1)

\* PostgreSQL detects a cycle of row-lock waits and aborts one transaction
\* of the cycle with a deadlock error.
DeadlockAbort(p) ==
  /\ Reaches(p, p, NumProcs)
  /\ Raise(p, "DeadlockDetected")

BookingStep(p) ==
  \/ BookLock(p) \/ BookSelect(p) \/ BookFlush(p)
  \/ CancelSelectAppt(p) \/ CancelSelectSlot(p) \/ CancelFlush(p)
  \/ RescheduleLockAppt(p) \/ RescheduleSelectAppt(p)
  \/ RescheduleLockFirst(p) \/ RescheduleLockSecond(p)
  \/ RescheduleSelectOld(p) \/ RescheduleSelectNew(p) \/ RescheduleFlush(p)
  \/ DeadlockAbort(p)

Next ==
  \E p \in Procs :
    \/ StartBook(p) \/ StartCancel(p) \/ StartReschedule(p) \/ Finish(p)
    \/ BookingStep(p)

Spec == Init /\ [][Next]_vars

\* ============================================================ conversation
\* ---------------------------------------------------------------- compliance
OPT_OUT_KEYWORDS == {"STOP", "STOPALL", "UNSUBSCRIBE", "END", "QUIT"}
OPT_IN_KEYWORDS == {"START", "YES", "UNSTOP"}
HELP_KEYWORDS == {"HELP", "INFO"}

\* The message bodies the contacts send.
Bodies == {" stop ", "yes", "HELP", "1", "book"}

\* (text or "").strip().upper()
Normalize(text) ==
  CASE text = " stop " -> "STOP"
    [] text = "yes" -> "YES"
    [] text = "HELP" -> "HELP"
    [] text = "1" -> "1"
    [] text = "book" -> "BOOK"
    [] OTHER -> text

IsComplianceKeywordExact(text) ==
  CASE text \in OPT_OUT_KEYWORDS -> "opt_out"
    [] text \in OPT_IN_KEYWORDS -> "opt_in"
    [] text \in HELP_KEYWORDS -> "help"
    [] OTHER -> "none"

\* is_compliance_keyword: the keyword type, "none" for (False, None).
IsComplianceKeyword(text) ==
  LET normalized == Normalize(text) IN
    CASE normalized \in OPT_OUT_KEYWORDS -> "opt_out"
      [] normalized \in OPT_IN_KEYWORDS -> "opt_in"
      [] normalized \in HELP_KEYWORDS -> "help"
      [] OTHER -> "none"

\* handle_compliance: the opt_in_status it leaves on the contact.
HandleCompliance(status, keyword_type) ==
  CASE keyword_type = "opt_out" -> "opted_out"
    [] keyword_type = "opt_in" -> "opted_in"
    [] OTHER -> status

\* handle_compliance: the reply it returns.
ComplianceReply(keyword_type) ==
  CASE keyword_type = "opt_out" -> "unsubscribed"
    [] keyword_type = "opt_in" -> "resubscribed"
    [] OTHER -> "help_text"

\* ---------------------------------------------------------------- slot store
MAX_RETRIES == 3
\* for attempt in range(3)
SendAttempts == 3
\* timedelta(hours=2)
ExpiryHours == 2
SlotLimit == 5

RECURSIVE SortedSeq(_)
\* ORDER BY start_time ASC: the slots are numbered in start-time order.
SortedSeq(S) ==
  IF S = {} THEN << >>
  ELSE LET m == CHOOSE x \in S : \A y \in S : x <= y
       IN <<m>> \o SortedSeq(S \ {m})

Take(seq, n) == SubSeq(seq, 1, Min(n, Len(seq)))
Range(seq) == {seq[i] : i \in DOMAIN seq}

\* get_available_slots(now, now + 7 days, limit): every slot of the model
\* lies inside the window, buffer included.
GetAvailableSlots(limit) ==
  Take(SortedSeq({s \in Slots : is_available[s]}), limit)

\* get_fresh_alternatives(exclude_slot_ids, limit)
GetFreshAlternatives(exclude_slot_ids, limit) ==
  Take(SortedSeq({s \in Slots : is_available[s] /\ s \notin exclude_slot_ids}), limit)

\* _get_contact_appointments(contact.id, ["confirmed"])[0]: the confirmed
\* appointment booked last (0 when there is none).
LatestConfirmed(c) ==
  LET mine == {a \in DOMAIN appointments :
                 appointments[a].contact = c /\ appointments[a].status = "confirmed"}
  IN IF mine = {} THEN 0 ELSE CHOOSE a \in mine : \A b \in mine : b <= a

\* ------------------------------------------------------------- intent classifier
INTENTS ==
  {"BOOK", "RESCHEDULE", "CANCEL", "CONFIRM", "DENY", "SELECT_SLOT", "QUESTION", "UNCLEAR"}

\* (message or "").strip().lower()
Lower(message) ==
  CASE message = " stop " -> "stop"
    [] message = "HELP" -> "help"
    [] OTHER -> message

\* _contains_any(text, affirmative): one of yes, y, yep, yeah, sure, ok, okay,
\* confirm, ... is a substring of text ("ok" is one of "book").
ContainsAffirmative(text) == text \in {"yes", "book"}

\* _contains_any(text, negative): no, nope, nah, different or change is a
\* substring of text.
ContainsNegative(text) == text \in {}

\* conversation_state = context.get("last_state", "idle"): no handler ever
\* writes last_state into the context.
ConversationStateArg(current_state, context) == "idle"

\* AIService._heuristic_intent_result, the answer of detect_intent when the
\* call of the language model raises.
heuristic_intent_result(message, conversation_state, available_slots) ==
  LET text == Lower(message)
      confirming == conversation_state \in
                      {"confirming_booking", "confirming_cancel", "confirming_reschedule"}
  IN CASE confirming /\ ContainsAffirmative(text) -> "CONFIRM"
       [] confirming /\ ~ContainsAffirmative(text) /\ ContainsNegative(text) -> "DENY"
       [] OTHER ->
            IF available_slots # << >> /\ text = "1" THEN "SELECT_SLOT"
            ELSE IF text = "book" THEN "BOOK"
            ELSE "UNCLEAR"

\* re.search(r"\b(\d+)\b", normalized): the number in the message, 0 if none.
Numeric(message) == IF message = "1" THEN 1 ELSE 0

\* parse_slot_selection: the id of the chosen slot, 0 for None.
ParseSlotSelection(message, presented_slots, pick) ==
  IF presented_slots = << >> THEN 0
  ELSE IF Numeric(message) \in 1..Len(presented_slots)
       THEN presented_slots[Numeric(message)]
       ELSE IF pick \in Range(presented_slots) THEN pick ELSE 0

\* ------------------------------------------------------------------ handlers
\* A handler returns (next_state, response_text, next_context), or is
\* suspended in a Booking Engine call (op says which).
Reply(next_state, response_text, next_context) ==
  [current_state |-> next_state, reply |-> response_text, context |-> next_context,
   op |-> "none", slot |-> 0, appt |-> 0]

Call(op, slot_id, appointment_id) ==
  [current_state |-> "call", reply |-> "", context |-> EmptyContext,
   op |-> op, slot |-> slot_id, appt |-> appointment_id]

BeginBooking ==
  LET slots == GetAvailableSlots(SlotLimit) IN
    IF slots = << >> THEN Reply("idle", "no_open_times", EmptyContext)
    ELSE Reply("showing_slots", "slot_list", [EmptyContext EXCEPT !.presented_slots = slots])

\* A variant that takes a slot choice arriving in idle as a wish to book.
HandleIdleSelectBooks(c, context, intent, o) ==
  CASE intent \in {"BOOK", "SELECT_SLOT"} -> BeginBooking
    [] intent = "CANCEL" ->
         LET appt == LatestConfirmed(c) IN
           IF appt = 0 THEN Reply("idle", "nothing_to_cancel", EmptyContext)
           ELSE Reply("confirming_cancel", "cancel_prompt",
                      [EmptyContext EXCEPT !.pending_appointment_id = appt])
    [] intent = "RESCHEDULE" ->
         LET original == LatestConfirmed(c) IN
           IF original = 0 THEN Reply("idle", "nothing_to_reschedule", EmptyContext)
           ELSE LET alternatives ==
                      GetFreshAlternatives({appointments[original].slot}, SlotLimit)
                IN IF alternatives = << >>
                   THEN Reply("idle", "no_alternatives", EmptyContext)
                   ELSE Reply("reschedule_show_slots", "slot_list",
                              [EmptyContext EXCEPT !.original_appointment_id = original,
                                                   !.presented_slots = alternatives])
    [] intent \in {"QUESTION", "UNCLEAR"} ->
         IF o.needs_info
         THEN Reply("awaiting_info", o.text,
                    [EmptyContext EXCEPT !.retry_count = context.retry_count])
         ELSE Reply("idle", o.text, EmptyContext)
    [] intent \in {"CONFIRM", "DENY"} -> Reply("idle", "menu", EmptyContext)
    [] OTHER -> Reply("idle", o.text, EmptyContext)

HandleIdle(c, context, intent, o) ==
  CASE intent = "BOOK" -> BeginBooking
    [] intent = "CANCEL" ->
         LET appt == LatestConfirmed(c) IN
           IF appt = 0 THEN Reply("idle", "nothing_to_cancel", EmptyContext)
           ELSE Reply("confirming_cancel", "cancel_prompt",
                      [EmptyContext EXCEPT !.pending_appointment_id = appt])
    [] intent = "RESCHEDULE" ->
         LET original == LatestConfirmed(c) IN
           IF original = 0 THEN Reply("idle", "nothing_to_reschedule", EmptyContext)
           ELSE LET alternatives ==
                      GetFreshAlternatives({appointments[original].slot}, SlotLimit)
                IN IF alternatives = << >>
                   THEN Reply("idle", "no_alternatives", EmptyContext)
                   ELSE Reply("reschedule_show_slots", "slot_list",
                              [EmptyContext EXCEPT !.original_appointment_id = original,
                                                   !.presented_slots = alternatives])
    [] intent \in {"QUESTION", "UNCLEAR"} ->
         IF o.needs_info
         THEN Reply("awaiting_info", o.text,
                    [EmptyContext EXCEPT !.retry_count = context.retry_count])
         ELSE Reply("idle", o.text, EmptyContext)
    [] intent \in {"CONFIRM", "DENY", "SELECT_SLOT"} -> Reply("idle", "menu", EmptyContext)
    [] OTHER -> Reply("idle", o.text, EmptyContext)

HandleShowingSlotsOffByOne(c, message, context, o) ==
  IF o.i1 \in {"CANCEL", "RESCHEDULE"} THEN HandleIdle(c, context, o.i2, o)
  ELSE LET selected_slot_id == ParseSlotSelection(message, context.presented_slots, o.pick)
           retry_count == context.retry_count + 1
       IN IF selected_slot_id = 0
          THEN IF retry_count > MAX_RETRIES
               THEN Reply("idle", "reset_book", EmptyContext)
               ELSE Reply("showing_slots", "didnt_catch",
                          [context EXCEPT !.retry_count = retry_count])
          ELSE Reply("confirming_booking", "confirm_prompt",
                     [context EXCEPT !.selected_slot_id = selected_slot_id,
                                     !.retry_count = 0])

HandleShowingSlots(c, message, context, o) ==
  IF o.i1 \in {"CANCEL", "RESCHEDULE"} THEN HandleIdle(c, context, o.i2, o)
  ELSE LET selected_slot_id == ParseSlotSelection(message, context.presented_slots, o.pick)
           retry_count == context.retry_count + 1
       IN IF selected_slot_id = 0
          THEN IF retry_count >= MAX_RETRIES
               THEN Reply("idle", "reset_book", EmptyContext)
               ELSE Reply("showing_slots", "didnt_catch",
                          [context EXCEPT !.retry_count = retry_count])
          ELSE Reply("confirming_booking", "confirm_prompt",
                     [context EXCEPT !.selected_slot_id = selected_slot_id,
                                     !.retry_count = 0])

HandleConfirmingBooking(c, context, o) ==
  CASE o.i1 = "CANCEL" -> HandleIdle(c, context, o.i2, o)
    [] o.i1 = "DENY" ->
         Reply("showing_slots", "pick_another", [context EXCEPT !.selected_slot_id = 0])
    [] o.i1 \notin {"CANCEL", "DENY", "CONFIRM"} ->
         Reply("confirming_booking", "yes_or_no", context)
    [] OTHER ->
         IF context.selected_slot_id = 0
         THEN Reply("showing_slots", "pick_first", context)
         ELSE Call("book", context.selected_slot_id, 0)

AfterBookKeepSelection(context, slot_id, result) ==
  IF result = "ok" THEN Reply("idle", "confirmation", EmptyContext)
  ELSE LET alternatives == GetFreshAlternatives({slot_id}, SlotLimit) IN
         IF alternatives = << >>
         THEN Reply("idle", "taken_no_alternatives", EmptyContext)
         ELSE Reply("showing_slots", "taken_alternatives",
                    [context EXCEPT !.presented_slots = alternatives])

\* _handle_confirming_booking after book_appointment has returned or raised
\* SlotUnavailableError.
AfterBook(context, slot_id, result) ==
  IF result = "ok" THEN Reply("idle", "confirmation", EmptyContext)
  ELSE LET alternatives == GetFreshAlternatives({slot_id}, SlotLimit) IN
         IF alternatives = << >>
         THEN Reply("idle", "taken_no_alternatives", EmptyContext)
         ELSE Reply("showing_slots", "taken_alternatives",
                    [EmptyContext EXCEPT !.presented_slots = alternatives])

\* A variant that cancels whatever the contact answers.
HandleConfirmingCancelAnyAnswer(context, o) ==
  IF context.pending_appointment_id = 0
  THEN Reply("idle", "cancel_not_found", EmptyContext)
  ELSE Call("cancel", 0, context.pending_appointment_id)

HandleConfirmingCancel(context, o) ==
  IF o.i1 # "CONFIRM" THEN Reply("idle", "still_booked", EmptyContext)
  ELSE IF context.pending_appointment_id = 0
       THEN Reply("idle", "cancel_not_found", EmptyContext)
       ELSE Call("cancel", 0, context.pending_appointment_id)

\* _handle_confirming_cancel after cancel_appointment has returned.
AfterCancel == Reply("idle", "cancelled", EmptyContext)

HandleRescheduleShowSlots(c, message, context, o) ==
  IF o.i1 = "CANCEL" THEN HandleIdle(c, context, o.i2, o)
  ELSE LET selected_slot_id == ParseSlotSelection(message, context.presented_slots, o.pick)
           retry_count == context.retry_count + 1
       IN IF selected_slot_id = 0
          THEN IF retry_count >= MAX_RETRIES
               THEN Reply("idle", "reset_reschedule", EmptyContext)
               ELSE Reply("reschedule_show_slots", "didnt_catch",
                          [context EXCEPT !.retry_count = retry_count])
          ELSE Reply("confirming_reschedule", "move_prompt",
                     [context EXCEPT !.selected_slot_id = selected_slot_id,
                                     !.retry_count = 0])

HandleConfirmingReschedule(context, o) ==
  CASE o.i1 = "DENY" -> Reply("idle", "no_changes", EmptyContext)
    [] o.i1 \notin {"DENY", "CONFIRM"} -> Reply("confirming_reschedule", "yes_or_no", context)
    [] OTHER ->
         IF context.original_appointment_id = 0 \/ context.selected_slot_id = 0
         THEN Reply("idle", "flow_broken", EmptyContext)
         ELSE Call("reschedule", context.selected_slot_id, context.original_appointment_id)

\* _handle_confirming_reschedule after reschedule_appointment has returned or
\* raised SlotUnavailableError.
AfterReschedule(context, slot_id, result) ==
  IF result = "ok" THEN Reply("idle", "confirmation", EmptyContext)
  ELSE LET alternatives == GetFreshAlternatives({slot_id}, SlotLimit) IN
         IF alternatives = << >>
         THEN Reply("idle", "taken_no_alternatives", EmptyContext)
         ELSE Reply("reschedule_show_slots", "taken_alternatives",
                    [context EXCEPT !.presented_slots = alternatives,
                                    !.selected_slot_id = 0, !.retry_count = 0])

\* _dispatch_state_handler
DispatchStateHandler(current_state, c, message, context, o) ==
  CASE current_state = "showing_slots" -> HandleShowingSlots(c, message, context, o)
    [] current_state = "confirming_booking" -> HandleConfirmingBooking(c, context, o)
    [] current_state = "confirming_cancel" -> HandleConfirmingCancel(context, o)
    [] current_state = "reschedule_show_slots" ->
         HandleRescheduleShowSlots(c, message, context, o)
    [] current_state = "confirming_reschedule" -> HandleConfirmingReschedule(context, o)
    [] OTHER -> HandleIdle(c, context, o.i1, o)

\* The handler hands the message over to _handle_idle, which asks the
\* classifier a second time.
Redispatched(current_state, intent) ==
  \/ current_state = "showing_slots" /\ intent \in {"CANCEL", "RESCHEDULE"}
  \/ current_state \in {"confirming_booking", "reschedule_show_slots"} /\ intent = "CANCEL"

\* The result of parse_slot_selection in this cycle, -1 when it is not called.
Parsed(current_state, message, context, o) ==
  IF current_state \in {"showing_slots", "reschedule_show_slots"}
       /\ ~Redispatched(current_state, o.i1)
  THEN ParseSlotSelection(message, context.presented_slots, o.pick)
  ELSE -1

\* ------------------------------------------------------------ inbound path
\* The workers of one server process are interchangeable: new work goes to
\* the free worker with the lowest number.
FirstFree(p) == \A q \in Procs : q < p => pc[q] # "idle"

\* The positions of process_inbound_message outside the Booking Engine.
PimPcs ==
  {"pim_lock", "pim_load", "pim_insert_wait", "pim_after", "pim_commit",
   "pim_send", "pim_provider", "pim_unlock"}

\* The workers at work.
Busy == {q \in Procs : pc[q] # "idle"}

\* SMSService.handle_inbound up to the routing decision: the contact is
\* fetched or created (pending), a compliance keyword is applied and
\* committed, anything else is committed and passed on.
InboundStart(p, cycles) ==
  /\ pc[p] = "idle" /\ messages < MaxMessages /\ FirstFree(p)
  /\ Cardinality(Busy) < cycles
  /\ \E ph \in Phones, body \in Bodies :
       LET keyword_type == IsComplianceKeyword(body)
           status == IF contacts[ph] = "none" THEN "pending" ELSE contacts[ph]
       IN IF keyword_type # "none"
          THEN /\ contacts' = [contacts EXCEPT ![ph] = HandleCompliance(status, keyword_type)]
               /\ job' = [job EXCEPT ![p] = [JobNone EXCEPT !.kind = "inbound", !.phone = ph,
                              !.body = body, !.reply = ComplianceReply(keyword_type),
                              !.committed = TRUE]]
               /\ pc' = [pc EXCEPT ![p] = "hi_send"]
          ELSE /\ contacts' = [contacts EXCEPT ![ph] = status]
               /\ job' = [job EXCEPT ![p] = [JobNone EXCEPT !.kind = "inbound", !.phone = ph,
                              !.body = body]]
               /\ pc' = [pc EXCEPT ![p] = "pim_lock"]
  /\ messages' = messages + 1
  /\ UNCHANGED <<bookingVars, jobs, clock, mail, serverOf, conv, lock>>

\* send_message(from_number, response_text, force_send=True)
GateSend(p) ==
  /\ pc[p] = "hi_send"
  /\ job' = [job EXCEPT ![p].sends = @ + 1, ![p].force = TRUE]
  /\ pc' = [pc EXCEPT ![p] = "done"]
  /\ UNCHANGED <<bookingVars, jobs, env>>

\* process_inbound_message called by another caller than handle_inbound
\* (the simulator endpoint, a test): no Compliance Gate in front of it.
DirectStart(p, cycles) ==
  /\ pc[p] = "idle" /\ messages < MaxMessages /\ FirstFree(p)
  /\ Cardinality(Busy) < cycles
  /\ \E ph \in Phones, body \in Bodies :
       job' = [job EXCEPT ![p] = [JobNone EXCEPT !.kind = "direct", !.phone = ph, !.body = body]]
  /\ pc' = [pc EXCEPT ![p] = "pim_lock"]
  /\ messages' = messages + 1
  /\ UNCHANGED <<bookingVars, jobs, clock, mail, serverOf, contacts, conv, lock>>

\* What process_inbound_message still holds of a cycle once the session of
\* _process_message_locked is over.
Locals(j) ==
  [JobNone EXCEPT !.kind = j.kind, !.phone = j.phone, !.lockAcq = j.lockAcq,
                  !.reply = j.reply, !.ignored = j.ignored, !.error = j.error]

\* A variant whose early return runs the finally clause: a message that finds
\* the key present deletes it on its way out.
AcquireLockDeleting(p) ==
  /\ pc[p] = "pim_lock"
  /\ LET ph == job[p].phone IN
       \/ /\ pc' = [pc EXCEPT ![p] = "pim_load"]
          /\ UNCHANGED <<job, lock>>
       \/ /\ ~lock[ph]
          /\ lock' = [lock EXCEPT ![ph] = TRUE]
          /\ job' = [job EXCEPT ![p].lockAcq = TRUE]
          /\ pc' = [pc EXCEPT ![p] = "pim_load"]
       \/ /\ lock[ph]
          /\ pc' = [pc EXCEPT ![p] = "done"]
          /\ job' = [job EXCEPT ![p] = Locals(job[p])]
          /\ lock' = [lock EXCEPT ![ph] = FALSE]
  /\ UNCHANGED <<bookingVars, jobs, clock, mail, serverOf, contacts, conv, messages>>

\* redis.set(lock_key, "1", nx=True, ex=CONTACT_LOCK_TTL)
AcquireLock(p) ==
  /\ pc[p] = "pim_lock"
  /\ LET ph == job[p].phone IN
       \/ \* no Redis client, or the call raises: go on without the lock
          /\ pc' = [pc EXCEPT ![p] = "pim_load"]
          /\ UNCHANGED <<job, lock>>
       \/ /\ ~lock[ph]
          /\ lock' = [lock EXCEPT ![ph] = TRUE]
          /\ job' = [job EXCEPT ![p].lockAcq = TRUE]
          /\ pc' = [pc EXCEPT ![p] = "pim_load"]
       \/ \* the key exists: the message is dropped
          /\ lock[ph]
          /\ pc' = [pc EXCEPT ![p] = "done"]
          /\ job' = [job EXCEPT ![p] = Locals(job[p])]
          /\ UNCHANGED lock
  /\ UNCHANGED <<bookingVars, jobs, clock, mail, serverOf, contacts, conv, messages>>

\* A variant whose key is set without ex: it never expires.
LockWithoutTTL(ph) ==
  /\ FALSE
  /\ UNCHANGED <<bookingVars, pc, job, jobs, env>>

\* The key conversation_lock:{phone} reaches its TTL.
LockExpire(ph) ==
  /\ lock[ph]
  /\ lock' = [lock EXCEPT ![ph] = FALSE]
  /\ UNCHANGED <<bookingVars, pc, job, jobs, clock, mail, serverOf, contacts, conv, messages>>

\* Cycles whose session holds an unflushed-to-commit INSERT of the
\* ConversationState row of ph.
Creators(ph) == {q \in Procs : job[q].phone = ph /\ job[q].created}

EntryPc(op) ==
  CASE op = "book" -> "bk_lock"
    [] op = "cancel" -> "cn_select_appt"
    [] OTHER -> "rs_lock_appt"

\* ------------------------------------------------ _process_message_locked
\* What the language model answers during one cycle: the intent of the first
\* and of a second detect_intent call (i1, i2), needs_info and response_text
\* of the result the handler uses, and the slot its select_slot tool call
\* names (pick).  An answer the cycle never asks for is fixed.
Answers(current_state, message, context) ==
  LET idles == {"idle", "awaiting_info"}
      parses == {"showing_slots", "reschedule_show_slots"}
  IN UNION {
       LET again == Redispatched(current_state, i1)
           talks == (again \/ current_state \in idles)
           chooses == current_state \in parses /\ ~again
                        /\ context.presented_slots # << >>
                        /\ Numeric(message) \notin 1..Len(context.presented_slots)
       IN [i1 : {i1},
           i2 : IF again THEN INTENTS ELSE {i1},
           needs_info : IF talks THEN BOOLEAN ELSE {FALSE},
           text : IF talks THEN {"ai_text", ""} ELSE {"ai_text"},
           pick : IF chooses THEN 0..NumSlots ELSE {0}]
       : i1 \in INTENTS }

SkippedOnlyUnknown(status) == status = "none"

\* contact is None or contact.opt_in_status == "opted_out"
Skipped(status) == status \in {"none", "opted_out"}

\* Load the contact and the state, run the handler up to its return or up
\* to its Booking Engine call.
ProcessMessage(p) ==
  /\ pc[p] = "pim_load"
  /\ LET ph == job[p].phone
         absent == conv[ph].current_state = "absent"
         state == IF absent THEN FreshState ELSE conv[ph]
     IN IF Skipped(contacts[ph])
        THEN \* contact is None / opted out: return
             /\ job' = [job EXCEPT ![p].ignored = TRUE]
             /\ pc' = [pc EXCEPT ![p] = "pim_unlock"]
        ELSE IF absent /\ Creators(ph) # {}
        THEN \* the INSERT waits for the one another session has flushed
             /\ pc' = [pc EXCEPT ![p] = "pim_insert_wait"]
             /\ UNCHANGED job
        ELSE \E o \in Answers(state.current_state, job[p].body, state.context) :
             /\ LET r == DispatchStateHandler(state.current_state, ph, job[p].body,
                                              state.context, o)
                    seen == [job[p] EXCEPT
                               !.created = absent, !.intent = o.i1,
                               !.loaded = state,
                               !.parsed = Parsed(state.current_state, job[p].body,
                                                 state.context, o),
                               !.aiCalls = IF Redispatched(state.current_state, o.i1)
                                           THEN 2 ELSE 1]
                IN IF r.op = "none"
                   THEN /\ job' = [job EXCEPT ![p] =
                                     [seen EXCEPT !.next = [current_state |-> r.current_state,
                                                            context |-> r.context],
                                                  !.reply = r.reply]]
                        /\ pc' = [pc EXCEPT ![p] = "pim_commit"]
                   ELSE /\ r.op \in {"book", "reschedule"} => RoomForInsert
                        /\ job' = [job EXCEPT ![p] =
                                     [seen EXCEPT !.op = r.op, !.contact = ph,
                                                  !.slot = r.slot, !.appt = r.appt,
                                                  !.issued = StatusOf(r.appt)]]
                        /\ pc' = [pc EXCEPT ![p] = EntryPc(r.op)]
  /\ UNCHANGED <<bookingVars, jobs, env>>

\* The session that had flushed the row has ended: the waiting INSERT fails
\* on the unique contact_id if the row was committed.
InsertWait(p) ==
  /\ pc[p] = "pim_insert_wait"
  /\ Creators(job[p].phone) = {}
  /\ IF conv[job[p].phone].current_state # "absent"
     THEN /\ job' = [job EXCEPT ![p].error = "IntegrityError"]
          /\ pc' = [pc EXCEPT ![p] = "pim_unlock"]
     ELSE /\ pc' = [pc EXCEPT ![p] = "pim_load"]
          /\ UNCHANGED job
  /\ UNCHANGED <<bookingVars, jobs, env>>

\* The Booking Engine call has returned or raised: the handler finishes, or
\* the exception leaves _process_message_locked.
AfterCallStep(p) ==
  /\ pc[p] = "pim_after"
  /\ LET result == job[p].result
         context == job[p].loaded.context
     IN IF result = "ok" \/ (result = "SlotUnavailableError" /\ job[p].op # "cancel")
        THEN LET r == CASE job[p].op = "book" -> AfterBook(context, job[p].slot, result)
                        [] job[p].op = "cancel" -> AfterCancel
                        [] OTHER -> AfterReschedule(context, job[p].slot, result)
             IN /\ job' = [job EXCEPT ![p].next = [current_state |-> r.current_state,
                                                   context |-> r.context],
                                      ![p].reply = r.reply]
                /\ pc' = [pc EXCEPT ![p] = "pim_commit"]
        ELSE /\ job' = [job EXCEPT ![p] = [Locals(job[p]) EXCEPT !.error = result]]
             /\ pc' = [pc EXCEPT ![p] = "pim_unlock"]
  /\ UNCHANGED <<bookingVars, jobs, env>>

\* The row a cycle's commit leaves behind.  The session loaded the row as
\* `loaded` and assigned the four attributes; the flush puts into its UPDATE
\* the columns whose assigned value differs from the loaded one, and the
\* others keep what the table holds by then.  A row the session inserted
\* itself is written whole.
Persisted(row, loaded, created, next_state, next_context, t) ==
  LET expires_at == IF next_state # "idle" THEN t + ExpiryHours ELSE 0
      col(new, old, current) == IF created \/ new # old THEN new ELSE current
  IN [current_state |-> col(next_state, loaded.current_state, row.current_state),
      context |-> next_context,
      last_message_at |-> col(t, loaded.last_message_at, row.last_message_at),
      expires_at |-> col(expires_at, loaded.expires_at, row.expires_at)]

\* state.current_state = next_state; state.context = next_context;
\* state.last_message_at = now; state.expires_at = now + 2 hours unless idle;
\* session.commit()
CommitState(p) ==
  /\ pc[p] = "pim_commit"
  /\ conv' = [conv EXCEPT ![job[p].phone] =
                Persisted(@, job[p].loaded, job[p].created,
                          job[p].next.current_state, job[p].next.context, now)]
  /\ job' = [job EXCEPT ![p] = [Locals(job[p]) EXCEPT !.committed = TRUE]]
  /\ pc' = [pc EXCEPT ![p] = IF job[p].reply = "" THEN "pim_unlock" ELSE "pim_send"]
  /\ UNCHANGED <<bookingVars, jobs, clock, mail, serverOf, contacts, lock, messages>>

\* send_message(to=phone_number, body=response_text) up to its opt-out check:
\* ContactOptedOutError (logged by the caller) before anything is handed to
\* the provider, or the message row is flushed and the attempts begin.
SendResponse(p) ==
  /\ pc[p] = "pim_send"
  /\ IF contacts[job[p].phone] = "opted_out"
     THEN /\ job' = [job EXCEPT ![p].sent = "suppressed", ![p].reply = ""]
          /\ pc' = [pc EXCEPT ![p] = "pim_unlock"]
     ELSE /\ job' = [job EXCEPT ![p].reply = ""]
          /\ pc' = [pc EXCEPT ![p] = "pim_provider"]
  /\ UNCHANGED <<bookingVars, jobs, env>>

\* HTTP statuses and Twilio error codes a failed provider call may carry.
Statuses == {429, 501, 503}
Codes == {"", "21610"}
NON_RETRYABLE_TWILIO_CODES == {"21211", "21610"}

NoResponse == [kind |-> "none", status |-> 0, code |-> ""]

\* How one call of messages.create ends: it returns, it raises a
\* TwilioRestException with a status and a code, or it raises anything else.
ProviderResponses ==
  {[NoResponse EXCEPT !.kind = "ok"], [NoResponse EXCEPT !.kind = "exception"]}
    \cup [kind : {"twilio"}, status : Statuses, code : Codes]

\* A variant that retries every 5xx status.
IsRetryableAny5xx(exc) ==
  (exc.status = 429 \/ exc.status \in 500..599)
    /\ exc.code \notin NON_RETRYABLE_TWILIO_CODES

\* exc.status in {429, 500, 502, 503, 504}
\*   and twilio_code not in NON_RETRYABLE_TWILIO_CODES
IsRetryable(exc) ==
  exc.status \in {429, 500, 502, 503, 504}
    /\ exc.code \notin NON_RETRYABLE_TWILIO_CODES

\* session.commit() of send_message: the Message row, flushed as queued, is
\* committed with the status the loop gave it.  Specifications that do not
\* look at the messages table leave its rows out (tracked is FALSE).
CommitMessage(status, attempts) ==
  IF outbox.tracked
  THEN [outbox EXCEPT !.rows = Append(@, [status |-> status, created_at |-> now,
                                          attempts |-> attempts])]
  ELSE outbox

\* One turn of the loop of send_message with the response r of the provider:
\* the row is marked sent and committed; or marked failed, committed, and the
\* exception raised; or the loop sleeps 2**attempt seconds and goes on.
LoopTurn(p, r, propagates) ==
  LET gives_up == IF r.kind = "twilio"
                  THEN job[p].attempt = SendAttempts - 1 \/ ~IsRetryable(r)
                  ELSE job[p].attempt = SendAttempts - 1
  IN IF r.kind = "ok" \/ gives_up
     THEN /\ job' = [job EXCEPT ![p].sends = @ + 1, ![p].attempt = 0,
                                ![p].response = r,
                                ![p].sent = IF r.kind = "ok" THEN "sent" ELSE "failed",
                                ![p].error = IF r.kind # "ok" /\ propagates
                                             THEN "SendError" ELSE @]
          /\ outbox' = CommitMessage(IF r.kind = "ok" THEN "sent" ELSE "failed",
                                    job[p].attempt + 1)
          /\ pc' = [pc EXCEPT ![p] = "pim_unlock"]
     ELSE /\ job' = [job EXCEPT ![p].sends = @ + 1, ![p].attempt = @ + 1,
                                ![p].response = r]
          /\ UNCHANGED <<pc, outbox>>

\* A variant that lets the exception of a failed send leave the cycle.
ProviderAttemptRaising(p) ==
  /\ pc[p] = "pim_provider"
  /\ \E r \in ProviderResponses : LoopTurn(p, r, TRUE)
  /\ UNCHANGED <<bookingVars, jobs, serverOf, contacts, conv, lock, messages, clock, retry, hook, query, campaign>>

\* for attempt in range(3): messages.create(...); the caller logs what
\* send_message raises.
ProviderAttempt(p) ==
  /\ pc[p] = "pim_provider"
  /\ \E r \in ProviderResponses : LoopTurn(p, r, FALSE)
  /\ UNCHANGED <<bookingVars, jobs, serverOf, contacts, conv, lock, messages, clock, retry, hook, query, campaign>>

\* The user_message of the SMSChatbotError instances the code raises: the two
\* SlotUnavailableError sites pass a message only.
UserMessages == {""}

\* handle_chatbot_error sends exc.user_message with force_send=True when the
\* exception carries one and the request has a reply_phone (0: none).
HandleChatbotErrorSends(user_message, reply_phone) ==
  user_message # "" /\ reply_phone # 0

\* finally: redis.delete(lock_key) if lock_acquired
ReleaseLock(p) ==
  /\ pc[p] = "pim_unlock"
  /\ \/ /\ job[p].lockAcq
        /\ lock' = [lock EXCEPT ![job[p].phone] = FALSE]
     \/ \* not acquired, or the delete raises
        UNCHANGED lock
  /\ pc' = [pc EXCEPT ![p] = "idle"]
  /\ job' = [job EXCEPT ![p] = JobNone]
  /\ UNCHANGED <<bookingVars, jobs, clock, mail, serverOf, contacts, conv, messages>>

\* A booking made beside the conversations (the admin API).
RivalBook(p) ==
  jobs < MaxRivals /\ FirstFree(p) /\ Cardinality(Busy) < MaxCycles /\ StartBook(p)

CallStep(p) ==
  \/ BookLock(p) \/ BookSelect(p) \/ BookFlush(p)
  \/ CancelSelectAppt(p) \/ CancelSelectSlot(p) \/ CancelFlush(p)
  \/ RescheduleLockAppt(p) \/ RescheduleSelectAppt(p)
  \/ RescheduleLockFirst(p) \/ RescheduleLockSecond(p)
  \/ RescheduleSelectOld(p) \/ RescheduleSelectNew(p) \/ RescheduleFlush(p)

InitConv ==
  /\ InitStore
  /\ serverOf = [p \in Procs |-> "s1"]
  /\ contacts = [ph \in Phones |-> "none"]

\* The messages of a contact and the calls of the admin API, taken up one
\* after the other.
NextConv ==
  \/ \E p \in Procs :
       \/ InboundStart(p, MaxCycles) \/ GateSend(p) \/ DirectStart(p, MaxCycles)
       \/ AcquireLock(p) \/ ProcessMessage(p)
       \/ AfterCallStep(p) \/ CommitState(p) \/ SendResponse(p) \/ ProviderAttempt(p) \/ ReleaseLock(p)
       \/ RivalBook(p) \/ CallStep(p) \/ Finish(p)
  \/ \E ph \in Phones : LockExpire(ph)

SpecConv == InitConv /\ [][NextConv]_vars

\* A burst of messages of one contact, handled by the workers at once.
NextBurst ==
  \/ \E p \in Procs :
       \/ messages < MaxBurst /\ InboundStart(p, NumProcs)
       \/ messages < MaxBurst /\ DirectStart(p, NumProcs)
       \/ GateSend(p) \/ AcquireLock(p) \/ ProcessMessage(p) \/ InsertWait(p)
       \/ CommitState(p) \/ SendResponse(p) \/ ProviderAttempt(p) \/ ReleaseLock(p) \/ Finish(p)
  \/ \E ph \in Phones : LockExpire(ph)

SpecBurst == InitConv /\ [][NextBurst]_vars

\* ------------------------------------------------------ expire_conversations
\* An hour passes.
Tick ==
  /\ now < MaxTime
  /\ now' = now + 1
  /\ UNCHANGED <<bookingVars, pc, job, jobs, mail, serverOf, contacts, conv, lock, messages, sweep>>

\* select(ConversationState).where(expires_at < now, current_state != "idle");
\* a NULL expires_at is not less than now.
ExpireSelect ==
  /\ sweep.pc = "idle"
  /\ sweep' = [pc |-> "loaded",
               expired |-> {ph \in Phones :
                              /\ conv[ph].current_state \notin {"absent", "idle"}
                              /\ conv[ph].expires_at # 0
                              /\ conv[ph].expires_at < now}]
  /\ UNCHANGED <<bookingVars, pc, job, jobs, mail, serverOf, contacts, conv, lock, messages, now>>

\* for state in expired: current_state = "idle"; context = {};
\* expires_at = None; session.commit(); return len(expired)
ExpireCommit ==
  /\ sweep.pc = "loaded"
  /\ conv' = [ph \in Phones |->
                IF ph \in sweep.expired
                THEN [conv[ph] EXCEPT !.current_state = "idle",
                                      !.context = EmptyContext, !.expires_at = 0]
                ELSE conv[ph]]
  /\ sweep' = [sweep EXCEPT !.pc = "idle"]
  /\ UNCHANGED <<bookingVars, pc, job, jobs, mail, serverOf, contacts, lock, messages, now>>

InitSweep ==
  /\ InitStore
  /\ serverOf = [p \in Procs |-> "s1"]
  /\ contacts = [ph \in Phones |-> "opted_in"]

\* The messages of a known contact, one cycle at a time, while the hours pass
\* and the expiry task runs beside them.
NextSweep ==
  \/ \E p \in Procs :
       \/ messages < MaxSweepMessages /\ DirectStart(p, MaxCycles)
       \/ AcquireLock(p) \/ ProcessMessage(p) \/ CommitState(p)
       \/ SendResponse(p) \/ ProviderAttempt(p) \/ ReleaseLock(p) \/ Finish(p)
  \/ \E ph \in Phones : LockExpire(ph)
  \/ Tick \/ ExpireSelect \/ ExpireCommit

SpecSweep == InitSweep /\ [][NextSweep]_vars

\* The cron job keeps running: a sweep that can start starts, and one that
\* has selected its rows commits.
SpecSweepLive ==
  SpecSweep /\ WF_vars(ExpireSelect) /\ WF_vars(ExpireCommit)

\* -------------------------------------------------------- retry_failed_sends
\* select(Message).where(status == "queued", created_at < now - 5 minutes)
RetrySelect ==
  /\ retry.pc = "idle"
  /\ retry' = [pc |-> "loaded",
               queued |-> {i \in DOMAIN outbox.rows :
                             /\ outbox.rows[i].status = "queued"
                             /\ outbox.rows[i].created_at < now}]
  /\ UNCHANGED <<bookingVars, pc, job, jobs, serverOf, contacts, conv, lock, messages,
                 clock, outbox, hook, query, campaign>>

\* for msg in queued: retry_send(...) returns and the row is marked sent, or
\* raises and it is marked failed; session.commit()
RetryCommit ==
  /\ retry.pc = "loaded"
  /\ \E sent \in SUBSET retry.queued :
       outbox' = [outbox EXCEPT !.rows =
                    [i \in DOMAIN @ |->
                       IF i \in retry.queued
                       THEN [@[i] EXCEPT !.status = IF i \in sent THEN "sent" ELSE "failed"]
                       ELSE @[i]]]
  /\ retry' = [retry EXCEPT !.pc = "idle"]
  /\ UNCHANGED <<bookingVars, pc, job, jobs, serverOf, contacts, conv, lock, messages,
                 clock, hook, query, campaign>>

\* The provider answers every retry_send of this run of the task.
RetryRecovered ==
  RetryCommit /\ \A i \in retry.queued : outbox'.rows[i].status = "sent"

\* Messages answered while the retry task runs.
MaxRetryMessages == 1

\* A known contact, with the outbound rows of the messages table kept.
InitRetry ==
  /\ is_available = [s \in Slots |-> TRUE]
  /\ appointments = << >>
  /\ slotRow = [s \in Slots |-> 0]
  /\ apptRow = [a \in ApptIds |-> 0]
  /\ slot_locks = [sv \in Servers |-> [k \in LockKeys |-> 0]]
  /\ pc = [p \in Procs |-> "idle"]
  /\ job = [p \in Procs |-> JobNone]
  /\ serverOf = [p \in Procs |-> "s1"]
  /\ jobs = 0
  /\ conv = [ph \in Phones |-> NoState]
  /\ now = 1
  /\ sweep = [pc |-> "idle", expired |-> {}]
  /\ outbox = [tracked |-> TRUE, rows |-> << >>]
  /\ retry = [pc |-> "idle", queued |-> {}]
  /\ hook = NoHook
  /\ query = NoQuery
  /\ campaign = NoCampaign
  /\ lock = [ph \in Phones |-> FALSE]
  /\ messages = 0
  /\ contacts = [ph \in Phones |-> "opted_in"]

\* The replies of a known contact's messages, one cycle at a time, while the
\* minutes pass and the retry task runs beside them.
NextRetry ==
  \/ \E p \in Procs :
       \/ messages < MaxRetryMessages /\ DirectStart(p, MaxCycles)
       \/ AcquireLock(p) \/ ProcessMessage(p) \/ CommitState(p)
       \/ SendResponse(p) \/ ProviderAttempt(p) \/ ReleaseLock(p)
  \/ \E ph \in Phones : LockExpire(ph)
  \/ Tick \/ RetrySelect \/ RetryCommit

SpecRetry == InitRetry /\ [][NextRetry]_vars

\* The cron job keeps running, and the provider has recovered: a run of the
\* task that can start starts, one that has selected its rows commits, and
\* again and again a run finds the provider answering.
SpecRetryLive ==
  SpecRetry /\ WF_vars(RetrySelect) /\ WF_vars(RetryCommit) /\ SF_vars(RetryRecovered)

\* --------------------------------------------------------------- inbound_sms
HookUnchanged ==
  UNCHANGED <<bookingVars, pc, job, jobs, serverOf, contacts, conv, lock, messages,
              clock, outbox, retry, query, campaign>>

\* The provider posts a delivery of the message sid; the signature is valid.
Deliver(d) ==
  /\ hook.req[d].pc = "none"
  /\ \E sid \in Sids : hook' = [hook EXCEPT !.req[d] = [pc |-> "check", sid |-> sid]]
  /\ HookUnchanged

\* IdempotencyService.is_duplicate: EXISTS message:<sid>
is_duplicate(sid) == sid # "" /\ sid \in hook.keys

\* if await idempotency_service.is_duplicate(sms_sid): return
CheckDuplicate(d) ==
  /\ hook.req[d].pc = "check"
  /\ hook' = [hook EXCEPT !.req[d].pc =
                 IF is_duplicate(hook.req[d].sid) THEN "skipped" ELSE "mark"]
  /\ HookUnchanged

\* await idempotency_service.mark_processed(sms_sid): SET message:<sid>;
\* background_tasks.add_task(_process_inbound_background, ...)
MarkProcessed(d) ==
  /\ hook.req[d].pc = "mark"
  /\ LET sid == hook.req[d].sid
     IN hook' = [hook EXCEPT !.req[d].pc = "added",
                             !.keys = @ \cup {sid},
                             !.tasks[sid] = @ + 1]
  /\ HookUnchanged

\* The requests of the webhook, each coroutine yielding at its awaits.
NextHook ==
  \E d \in Deliveries : Deliver(d) \/ CheckDuplicate(d) \/ MarkProcessed(d)

SpecHook == InitSweep /\ [][NextHook]_vars

\* ------------------------------------------------------ the slot queries
\* Rows of availability_slots with their columns, times in model hours.
NumRows == 3
MaxStart == 2
MaxBuffer == 1
MaxLimit == 2
SlotLength == 1
Week == 2
Rows == 1..NumRows
Providers == {"p1", "p2"}
SlotRows ==
  [start_time : 1..MaxStart, buffer_minutes : 0..MaxBuffer,
   provider_id : Providers, is_available : BOOLEAN]
EndTime(row) == row.start_time + SlotLength

\* ORDER BY start_time ASC then [:limit]: every order of the ids in S that is
\* ascending in start_time (rows of equal start_time come in any order), cut
\* at limit.
OrderedBy(store, S, limit) ==
  LET n == Cardinality(S)
      orders == {seq \in [1..n -> S] :
                   /\ \A i, j \in 1..n : i # j => seq[i] # seq[j]
                   /\ \A i, j \in 1..n :
                        i < j => store[seq[i]].start_time <= store[seq[j]].start_time}
  IN {Take(seq, limit) : seq \in orders}

\* A variant whose Python filter forgets the buffer.
get_available_slots_no_buffer(store, date_from, date_to, provider_id, limit) ==
  OrderedBy(store,
            {id \in DOMAIN store :
               /\ store[id].is_available
               /\ store[id].start_time >= date_from
               /\ EndTime(store[id]) <= date_to
               /\ provider_id # "none" => store[id].provider_id = provider_id},
            limit)

\* SchedulingService.get_available_slots: the SQL filter, the provider
\* filter, the Python filter on the buffer, the cut at limit.
get_available_slots(store, date_from, date_to, provider_id, limit) ==
  LET candidates == {id \in DOMAIN store :
                       /\ store[id].is_available
                       /\ store[id].start_time >= date_from
                       /\ EndTime(store[id]) <= date_to
                       /\ provider_id # "none" => store[id].provider_id = provider_id}
      filtered == {id \in candidates :
                     /\ store[id].is_available
                     /\ EndTime(store[id]) + store[id].buffer_minutes <= date_to}
  IN OrderedBy(store, filtered, limit)

\* A variant that leaves out the not_in clause.
get_fresh_alternatives_no_exclusion(store, exclude_slot_ids, date_from, limit, provider_id) ==
  LET start == date_from
      end == start + Week
  IN OrderedBy(store,
               {id \in DOMAIN store :
                  /\ store[id].is_available
                  /\ store[id].start_time >= start
                  /\ EndTime(store[id]) <= end
                  /\ provider_id # "none" => store[id].provider_id = provider_id},
               limit)

\* SchedulingService.get_fresh_alternatives with date_from given.
get_fresh_alternatives(store, exclude_slot_ids, date_from, limit, provider_id) ==
  LET start == date_from
      end == start + Week
  IN OrderedBy(store,
               {id \in DOMAIN store :
                  /\ store[id].is_available
                  /\ store[id].start_time >= start
                  /\ EndTime(store[id]) <= end
                  /\ exclude_slot_ids # {} => id \notin exclude_slot_ids
                  /\ provider_id # "none" => store[id].provider_id = provider_id},
               limit)

QueryUnchanged ==
  UNCHANGED <<bookingVars, pc, job, jobs, serverOf, contacts, conv, lock, messages,
              clock, outbox, retry, hook, campaign>>

\* A caller asks for the available slots of a window.
CallAvailableSlots ==
  /\ query.call.fn = "none"
  /\ \E date_from \in 1..MaxStart, date_to \in MaxStart..(MaxStart + SlotLength + MaxBuffer),
        provider_id \in {"none", "p1"}, limit \in 1..MaxLimit :
       \E result \in get_available_slots(query.store, date_from, date_to, provider_id, limit) :
         query' = [query EXCEPT !.call =
                     [NoCall EXCEPT !.fn = "get_available_slots", !.date_from = date_from,
                                    !.date_to = date_to, !.provider_id = provider_id,
                                    !.limit = limit, !.result = result]]
  /\ QueryUnchanged

\* A caller asks for alternatives to the slots it names.
CallFreshAlternatives ==
  /\ query.call.fn = "none"
  /\ \E exclude_slot_ids \in SUBSET Rows, date_from \in 1..MaxStart,
        provider_id \in {"none", "p1"}, limit \in 1..MaxLimit :
       \E result \in get_fresh_alternatives(query.store, exclude_slot_ids, date_from,
                                            limit, provider_id) :
         query' = [query EXCEPT !.call =
                     [NoCall EXCEPT !.fn = "get_fresh_alternatives",
                                    !.exclude_slot_ids = exclude_slot_ids,
                                    !.date_from = date_from, !.provider_id = provider_id,
                                    !.limit = limit, !.result = result]]
  /\ QueryUnchanged

\* Any slot table of NumRows rows, and one query made on it.
InitQuery ==
  /\ is_available = [s \in Slots |-> TRUE]
  /\ appointments = << >>
  /\ slotRow = [s \in Slots |-> 0]
  /\ apptRow = [a \in ApptIds |-> 0]
  /\ slot_locks = [sv \in Servers |-> [k \in LockKeys |-> 0]]
  /\ pc = [p \in Procs |-> "idle"]
  /\ job = [p \in Procs |-> JobNone]
  /\ serverOf = [p \in Procs |-> "s1"]
  /\ jobs = 0
  /\ conv = [ph \in Phones |-> NoState]
  /\ now = 1
  /\ sweep = [pc |-> "idle", expired |-> {}]
  /\ outbox = [tracked |-> FALSE, rows |-> << >>]
  /\ retry = [pc |-> "idle", queued |-> {}]
  /\ hook = NoHook
  /\ campaign = NoCampaign
  /\ lock = [ph \in Phones |-> FALSE]
  /\ messages = 0
  /\ contacts = [ph \in Phones |-> "opted_in"]
  /\ \E store \in [Rows -> SlotRows] : query = [store |-> store, call |-> NoCall]

NextQuery == CallAvailableSlots \/ CallFreshAlternatives

SpecQuery == InitQuery /\ [][NextQuery]_vars

\* ------------------------------------------------- beside the admin console
\* A reschedule made beside the conversations (reschedule_appointment_admin,
\* which answers 404 for an appointment that does not exist).
RivalReschedule(p) ==
  /\ jobs < MaxRivals /\ FirstFree(p) /\ Cardinality(Busy) < MaxCycles
  /\ StartReschedule(p)
  /\ job'[p].appt \in DOMAIN appointments

\* The messages of a known contact, one cycle at a time, between the bookings
\* and reschedules an administrator makes.
NextAdmin ==
  \/ \E p \in Procs :
       \/ DirectStart(p, MaxCycles)
       \/ AcquireLock(p) \/ ProcessMessage(p)
       \/ AfterCallStep(p) \/ CommitState(p) \/ SendResponse(p) \/ ProviderAttempt(p) \/ ReleaseLock(p)
       \/ RivalBook(p) \/ RivalReschedule(p) \/ CallStep(p) \/ Finish(p)
  \/ \E ph \in Phones : LockExpire(ph)

SpecAdmin == InitSweep /\ [][NextAdmin]_vars

\* ===================================================== Booking Engine claims
\* The step in which the Booking Engine call of p returns or raises.
Ends(p) == pc[p] \in CallPcs /\ pc'[p] \notin CallPcs

ConfirmedOn(appts, s) ==
  {a \in DOMAIN appts : appts[a].status = "confirmed" /\ appts[a].slot = s}

\* C1: a book_appointment call ends in success or in SlotUnavailableError and in
\* nothing else; it succeeds exactly when the slot was available under its lock
\* (so of N concurrent calls on an available slot the first to get the lock
\* succeeds and the others raise SlotUnavailableError); after a success the slot
\* is unavailable and exactly one confirmed appointment references it.
C1_BookExclusive ==
  [][\A p \in Procs :
       (job[p].op = "book" /\ Ends(p)) =>
         LET s == job[p].slot IN
           /\ job'[p].result = IF is_available[s] THEN "ok" ELSE "SlotUnavailableError"
           /\ job'[p].result = "ok" =>
                /\ ~is_available'[s]
                /\ Cardinality(ConfirmedOn(appointments', s)) = 1]_vars

\* C2: in every reachable state each slot is referenced by at most one
\* appointment with status confirmed.
C2_AtMostOneConfirmed ==
  \A s \in Slots : Cardinality(ConfirmedOn(appointments, s)) <= 1

\* An appointment cancelled twice (version 3) whose slot was rebooked in
\* between: the second cancel has reopened the slot of a confirmed appointment.
C2_Witness ==
  \E a, b \in DOMAIN appointments :
    /\ appointments[a].status = "cancelled" /\ appointments[a].version >= 3
    /\ appointments[b].status = "confirmed"
    /\ appointments[a].slot = appointments[b].slot
    /\ is_available[appointments[b].slot]

\* C3: reschedule_appointment is all-or-nothing. The step in which a call
\* succeeds makes the old slot available, the new slot unavailable, the old
\* appointment rescheduled with version + 1 and adds one confirmed appointment
\* on the new slot whose rescheduled_from_id is the old id; every other step
\* of the call, a failing one included, leaves slots and appointments as they
\* were, so no reader sees some of the four facts without the others.
C3_RescheduleAtomic ==
  [][\A p \in Procs :
       (job[p].op = "reschedule" /\ pc'[p] # pc[p]) =>
         IF Ends(p) /\ job'[p].result = "ok"
           THEN LET a == job[p].appt
                    n == Len(appointments')
                IN /\ is_available'[appointments[a].slot]
                   /\ ~is_available'[job[p].slot]
                   /\ appointments'[a].status = "rescheduled"
                   /\ appointments'[a].version = appointments[a].version + 1
                   /\ n = Len(appointments) + 1
                   /\ appointments'[n].status = "confirmed"
                   /\ appointments'[n].slot = job[p].slot
                   /\ appointments'[n].rescheduled_from_id = a
                   /\ \A i \in DOMAIN appointments : i # a => appointments'[i] = appointments[i]
           ELSE UNCHANGED <<is_available, appointments>>]_vars

\* A reschedule that has just succeeded while another call was in flight.
C3_Witness ==
  \E p, q \in Procs :
    /\ pc[p] = "done" /\ job[p].op = "reschedule" /\ job[p].result = "ok"
    /\ appointments[job[p].newAppt].rescheduled_from_id = job[p].appt
    /\ appointments[job[p].appt].status = "rescheduled"
    /\ is_available[job[p].oldSlot] /\ ~is_available[job[p].slot]
    /\ q # p /\ pc[q] \in CallPcs

\* C10: cancel_appointment of an existing appointment succeeds, and the step
\* in which it does makes the slot available, sets the status to cancelled,
\* records cancelled_at and the given reason, and increments the version by
\* exactly one.
C10_CancelReopens ==
  [][\A p \in Procs :
       (job[p].op = "cancel" /\ Ends(p) /\ job[p].appt \in DOMAIN appointments) =>
         LET a == job[p].appt IN
           /\ job'[p].result = "ok"
           /\ is_available'[appointments[a].slot]
           /\ appointments'[a].status = "cancelled"
           /\ appointments'[a].cancelled_at
           /\ appointments'[a].cancellation_reason = job[p].reason
           /\ appointments'[a].version = appointments[a].version + 1]_vars

\* A booked appointment cancelled once, with a reason.
C10_Witness ==
  \E p \in Procs :
    /\ pc[p] = "done" /\ job[p].op = "cancel" /\ job[p].result = "ok"
    /\ job[p].reason = "admin"
    /\ appointments[job[p].appt].status = "cancelled"
    /\ appointments[job[p].appt].cancellation_reason = "admin"
    /\ appointments[job[p].appt].version = 2
    /\ is_available[appointments[job[p].appt].slot]

\* ============================================= conversation and gate claims
KeywordBodies ==
  {b \in Bodies : Normalize(b) \in OPT_OUT_KEYWORDS \cup OPT_IN_KEYWORDS \cup HELP_KEYWORDS}

\* The positions between the load of the state and its commit.
SectionPcs == {"pim_insert_wait", "pim_after", "pim_commit"} \cup CallPcs

\* p takes up a message through handle_inbound in this step.
TakesInbound(p) == pc[p] = "idle" /\ pc'[p] # "idle" /\ job'[p].kind = "inbound"

\* The handler of p runs in this step (the contact is known and not opted out).
Handles(p) == pc[p] = "pim_load" /\ pc'[p] \in {"pim_commit"} \cup CallPcs

\* C4: two cycles of one contact that both hold the per-contact lock are never
\* inside their load-handle-persist sections at the same time, also when a
\* cycle outlives the 30 s expiry of the lock key.
C4_MutualExclusion ==
  \A p, q \in Procs :
    (p # q /\ job[p].phone = job[q].phone /\ job[p].lockAcq /\ job[q].lockAcq)
      => ~(pc[p] \in SectionPcs /\ pc[q] \in SectionPcs)

\* C5: an inbound message whose trimmed, upper-cased body is a compliance
\* keyword is handled by the gate alone: the classifier is not called, the
\* conversation state and context stay as they are, the opt-in status change
\* is committed before the reply is sent, and the reply is sent with force_send.
C5_ComplianceGate ==
  [][\A p \in Procs :
       /\ (TakesInbound(p) /\ job'[p].body \in KeywordBodies) =>
            /\ pc'[p] = "hi_send"
            /\ job'[p].committed /\ job'[p].sends = 0 /\ job'[p].aiCalls = 0
            /\ Normalize(job'[p].body) \in OPT_OUT_KEYWORDS
                 => contacts'[job'[p].phone] = "opted_out"
            /\ Normalize(job'[p].body) \in OPT_IN_KEYWORDS
                 => contacts'[job'[p].phone] = "opted_in"
            /\ conv' = conv
       /\ (pc[p] = "hi_send" /\ pc'[p] # "hi_send") =>
            /\ pc'[p] = "done"
            /\ job[p].committed /\ job[p].sends = 0
            /\ job'[p].sends = 1 /\ job'[p].force /\ job'[p].aiCalls = 0
            /\ conv' = conv /\ contacts' = contacts]_vars

C5_Witness ==
  \E p \in Procs :
    /\ pc[p] = "done" /\ job[p].kind = "inbound" /\ job[p].body = " stop "
    /\ job[p].sends = 1 /\ job[p].force /\ job[p].aiCalls = 0
    /\ contacts[job[p].phone] = "opted_out"
    /\ conv[job[p].phone].current_state = "showing_slots"

\* C6: process_inbound_message for a contact that is unknown or opted out
\* returns without creating or changing a ConversationState, without sending
\* anything, without calling the classifier and without a booking operation.
C6_UnknownOrOptedOut ==
  [][\A p \in Procs :
       /\ (pc[p] = "pim_load" /\ pc'[p] # "pim_load"
              /\ contacts[job[p].phone] \in {"none", "opted_out"}) =>
            /\ pc'[p] = "pim_unlock" /\ job'[p].ignored
            /\ job'[p].aiCalls = 0 /\ job'[p].op = "none" /\ job'[p].reply = ""
            /\ UNCHANGED <<conv, contacts, is_available, appointments>>
       /\ (job[p].ignored /\ pc'[p] # pc[p]) =>
            /\ pc[p] = "pim_unlock" /\ pc'[p] = "idle"
            /\ job[p].sends = 0 /\ job[p].aiCalls = 0 /\ job[p].op = "none"
            /\ UNCHANGED <<conv, contacts, is_available, appointments>>]_vars

C6_Witness ==
  \E p \in Procs :
    /\ pc[p] = "pim_unlock" /\ job[p].ignored /\ job[p].sends = 0
    /\ contacts[job[p].phone] = "opted_out"
    /\ conv[job[p].phone].current_state = "confirming_booking"

\* The state a cycle loads for ph: the row, or the fresh idle one it creates.
Loaded(ph) == IF conv[ph].current_state = "absent" THEN FreshState ELSE conv[ph]

\* The three handler steps of the happy path and the return of the booking.
HappyHandlers(p) ==
  LET ph == job[p].phone
      state == Loaded(ph)
      n == job'[p].next
  IN /\ (Handles(p) /\ state.current_state = "idle" /\ job'[p].intent = "BOOK"
           /\ \E s \in Slots : is_available[s]) =>
          /\ pc'[p] = "pim_commit" /\ n.current_state = "showing_slots"
          /\ Range(n.context.presented_slots) = {s \in Slots : is_available[s]}
     /\ (Handles(p) /\ state.current_state = "showing_slots" /\ job[p].body = "1"
           /\ job'[p].intent \notin {"CANCEL", "RESCHEDULE"}
           /\ state.context.presented_slots # << >>) =>
          /\ pc'[p] = "pim_commit" /\ n.current_state = "confirming_booking"
          /\ n.context.selected_slot_id = state.context.presented_slots[1]
     /\ (Handles(p) /\ state.current_state = "confirming_booking"
           /\ job'[p].intent = "CONFIRM" /\ state.context.selected_slot_id # 0) =>
          /\ job'[p].op = "book" /\ job'[p].slot = state.context.selected_slot_id
          /\ job'[p].contact = ph
     /\ (pc[p] = "pim_after" /\ pc'[p] # "pim_after" /\ job[p].op = "book"
           /\ job[p].result = "ok") =>
          /\ pc'[p] = "pim_commit" /\ n.current_state = "idle"
          /\ {a \in ConfirmedOn(appointments, job[p].slot) :
                 appointments[a].contact = ph} = {job[p].newAppt}

\* C7: the messages "book", "1" and "yes" of an opted-in contact, sent through
\* the inbound path, all reach the Conversation State Machine, which takes the
\* conversation to showing_slots (BOOK, slots open), to confirming_booking
\* (the first presented slot selected) and, on CONFIRM with the slot still
\* available, through the booking to idle with one confirmed appointment of
\* the contact on that slot.
C7_HappyPath ==
  [][\A p \in Procs :
       /\ (TakesInbound(p) /\ contacts[job'[p].phone] = "opted_in"
             /\ <<job'[p].body, Loaded(job'[p].phone).current_state>> \in
                  {<<"book", "idle">>, <<"1", "showing_slots">>,
                   <<"yes", "confirming_booking">>}) => pc'[p] = "pim_lock"
       /\ HappyHandlers(p)]_vars

\* C8 as stated: when book_appointment raises SlotUnavailableError on CONFIRM,
\* the handler catches it, no appointment is created, and the conversation goes
\* back to showing_slots with a fresh list without the slot, the selection
\* cleared and an apology as reply.
C8_AlwaysShowingSlots ==
  [][\A p \in Procs :
       (pc[p] = "pim_after" /\ pc'[p] # "pim_after" /\ job[p].op = "book"
          /\ job[p].result = "SlotUnavailableError") =>
         /\ pc'[p] = "pim_commit" /\ job'[p].error = "none"
         /\ appointments' = appointments
         /\ job'[p].next.current_state = "showing_slots"
         /\ job[p].slot \notin Range(job'[p].next.context.presented_slots)
         /\ job'[p].next.context.selected_slot_id = 0
         /\ job'[p].reply \in {"taken_alternatives", "taken_no_alternatives"}]_vars

\* C8, amended: when book_appointment raises SlotUnavailableError on CONFIRM,
\* no appointment is created, the handler catches the error, clears the
\* selection and replies with an apology; the conversation goes back to
\* showing_slots with the available slots other than the taken one if there is
\* such a slot, and to idle with no presented slots if there is none.
C8_SlotTaken ==
  [][\A p \in Procs :
       /\ (job[p].op = "book" /\ Ends(p) /\ job'[p].result = "SlotUnavailableError")
            => appointments' = appointments
       /\ (pc[p] = "pim_after" /\ pc'[p] # "pim_after" /\ job[p].op = "book"
             /\ job[p].result = "SlotUnavailableError") =>
            LET free == {s \in Slots : is_available[s] /\ s # job[p].slot}
                n == job'[p].next
            IN /\ pc'[p] = "pim_commit" /\ job'[p].error = "none"
               /\ appointments' = appointments /\ is_available' = is_available
               /\ n.context.selected_slot_id = 0
               /\ Range(n.context.presented_slots) \subseteq free
               /\ IF free # {}
                  THEN /\ n.current_state = "showing_slots"
                       /\ n.context.presented_slots # << >>
                       /\ job'[p].reply = "taken_alternatives"
                  ELSE /\ n.current_state = "idle"
                       /\ job'[p].reply = "taken_no_alternatives"]_vars

C8_Witness ==
  \E p \in Procs :
    /\ pc[p] = "pim_commit" /\ job[p].op = "book"
    /\ job[p].result = "SlotUnavailableError"
    /\ job[p].next.current_state = "showing_slots"
    /\ job[p].next.context.presented_slots # << >>
    /\ job[p].slot \notin Range(job[p].next.context.presented_slots)
    /\ job[p].next.context.selected_slot_id = 0

C11_ProcessedOnce ==
  [][\A p \in Procs :
       (job[p].op \in {"cancel", "reschedule"} /\ Ends(p)
          /\ job[p].issued = "confirmed"
          /\ appointments'[job[p].appt] # appointments[job[p].appt])
         => appointments[job[p].appt].status = "confirmed"]_vars

\* p waits for an asyncio lock of its server process that q holds.
AppWaitsFor(p, q) ==
  /\ p # q /\ serverOf[p] = serverOf[q]
  /\ LET held(k) == slot_locks[serverOf[p]][k] = q IN
       \/ pc[p] = "bk_lock" /\ held(SlotKey(job[p].slot))
       \/ pc[p] = "rs_lock_appt" /\ held(ApptKey(job[p].appt))
       \/ pc[p] = "rs_lock_first" /\ held(SlotKey(Min(job[p].oldSlot, job[p].slot)))
       \/ pc[p] = "rs_lock_second" /\ held(SlotKey(Max(job[p].oldSlot, job[p].slot)))

\* C12: two concurrent reschedule_appointment calls on different appointments
\* that touch the same two slots in reverse order never wait for each other,
\* in one server process or in two: no state has each of them blocked on a
\* lock (asyncio lock or row lock) the other holds.
C12_NoDeadlock ==
  \A p, q \in Procs :
    (p # q /\ job[p].op = "reschedule" /\ job[q].op = "reschedule"
       /\ job[p].appt # job[q].appt)
      => ~(/\ WaitsFor(p, q) \/ AppWaitsFor(p, q)
           /\ WaitsFor(q, p) \/ AppWaitsFor(q, p))

\* C13: a message that finds the per-contact lock key present never acquires
\* the lock; when Redis answers, it is dropped: the call returns at once and
\* the message is not taken up again, the conversation state, the contact and
\* the bookings stay as they are, the classifier is not called, nothing is
\* sent, and the key of the cycle in flight stays in place.
C13_Dropped ==
  [][\A p \in Procs :
       /\ (pc[p] = "pim_lock" /\ pc'[p] # "pim_lock" /\ lock[job[p].phone]) =>
            /\ ~job'[p].lockAcq /\ lock' = lock
            /\ pc'[p] \in {"done", "pim_load"}
       /\ (pc[p] = "pim_lock" /\ pc'[p] = "done") =>
            /\ lock[job[p].phone] /\ lock' = lock
            /\ job'[p].aiCalls = 0 /\ job'[p].sends = 0 /\ job'[p].op = "none"
            /\ ~job'[p].committed /\ ~job'[p].lockAcq
            /\ UNCHANGED <<conv, contacts, is_available, appointments, messages>>
       /\ (pc[p] = "done" /\ pc'[p] # "done") =>
            /\ pc'[p] = "idle" /\ job'[p] = JobNone
            /\ UNCHANGED <<conv, contacts, lock, is_available, appointments, messages>>]_vars

C13_Witness ==
  \E p, q \in Procs :
    /\ pc[p] = "done" /\ job[p].kind \in {"inbound", "direct"}
    /\ job[p].sends = 0 /\ ~job[p].force /\ ~job[p].lockAcq
    /\ q # p /\ pc[q] = "pim_commit" /\ job[q].lockAcq
    /\ job[q].phone = job[p].phone /\ lock[job[q].phone]

\* C14: the reply of a cycle is handed to send_message only after the cycle
\* has committed its new state; whether the send succeeds, fails or is
\* refused, the committed conversation state stays as it is, no exception
\* leaves process_inbound_message, and the cycle ends by releasing the lock.
C14_SendAfterCommit ==
  [][\A p \in Procs :
       LET ph == job[p].phone IN
       /\ (pc[p] = "pim_commit" /\ pc'[p] # "pim_commit") =>
            /\ job[p].sent = "none" /\ job[p].sends = 0 /\ ~job[p].committed
            /\ job'[p].committed /\ job'[p].sent = "none"
            /\ conv'[ph].current_state # "absent"
            /\ conv'[ph].context = job[p].next.context
       /\ (pc[p] \in {"pim_send", "pim_provider"} /\ job'[p] # job[p]) =>
            /\ job[p].committed
            /\ pc'[p] \in {"pim_provider", "pim_unlock"} /\ job'[p].error = "none"
            /\ pc'[p] = "pim_unlock" <=> job'[p].sent # "none"
            /\ UNCHANGED <<conv, contacts>>
       /\ job'[p].sends > job[p].sends =>
            pc[p] \in {"hi_send", "pim_provider"}
       /\ (pc[p] = "pim_unlock" /\ job[p].sent # "none" /\ pc'[p] # pc[p]) =>
            /\ pc'[p] = "idle" /\ UNCHANGED <<conv, contacts>>]_vars

C14_Witness ==
  \E p \in Procs :
    /\ pc[p] = "pim_unlock" /\ job[p].sent = "failed" /\ job[p].committed
    /\ conv[job[p].phone].current_state = "showing_slots"
    /\ conv[job[p].phone].expires_at = now + ExpiryHours

C16_ExpiresAt ==
  \A ph \in Phones :
    conv[ph].current_state # "absent" =>
      /\ conv[ph].expires_at = 0 <=> conv[ph].current_state = "idle"
      /\ conv[ph].current_state # "idle" =>
           conv[ph].expires_at = conv[ph].last_message_at + ExpiryHours

\* The row of ph is not idle and its expires_at has elapsed.
Elapsed(ph) ==
  /\ conv[ph].current_state \notin {"absent", "idle"}
  /\ conv[ph].expires_at # 0 /\ conv[ph].expires_at < now

\* No message of ph is being handled.
Quiet(ph) == \A p \in Procs : pc[p] = "idle" \/ job[p].phone # ph

\* While the sweep keeps running, a non-idle conversation whose expires_at
\* has elapsed is reset to idle with an empty context and a null expires_at,
\* unless a further message comes in.
C17_EventuallyReset ==
  \A ph \in Phones :
    (Elapsed(ph) /\ Quiet(ph)) ~>
      \/ ~Quiet(ph)
      \/ /\ conv[ph].current_state = "idle" /\ conv[ph].context = EmptyContext
         /\ conv[ph].expires_at = 0

\* The commit of a sweep changes only rows that are not idle and whose
\* expires_at has elapsed.
C17_OnlyElapsed ==
  [][(sweep.pc = "loaded" /\ sweep'.pc = "idle") =>
       \A ph \in Phones : conv'[ph] # conv[ph] => Elapsed(ph)]_vars

\* C17: if the expiry sweep keeps running, every non-idle conversation that
\* receives no further message is eventually reset to idle with an empty
\* context and a null expires_at once its expires_at has elapsed; and a sweep
\* never changes a conversation that is idle or whose expires_at has not
\* elapsed.
C17_ExpirySweep == C17_EventuallyReset /\ C17_OnlyElapsed

\* C18: when the Booking Engine call of the confirm step of the cancel or the
\* reschedule flow raises a not-found or an integrity error, the cycle aborts
\* the flow: it goes on to persist the conversation as idle and has an
\* apology to send.
C18_AbortOnError ==
  [][\A p \in Procs :
       (/\ pc[p] = "pim_after" /\ pc'[p] # pc[p]
        /\ job[p].op \in {"cancel", "reschedule"}
        /\ job[p].result \in {"ValueError", "IntegrityError"}) =>
         /\ pc'[p] = "pim_commit"
         /\ job'[p].next.current_state = "idle"
         /\ job'[p].reply # ""]_vars

\* C19: a cycle that has acquired the lock for a message of a known contact
\* who is not opted out ends with one call of send_message behind it,
\* whatever the state, the intent and the outcome of the Booking Engine; a
\* cycle that ignored its message ends with none.
C19_OneReply ==
  \A p \in Procs :
    (pc[p] = "pim_unlock" /\ job[p].lockAcq) =>
      IF job[p].ignored THEN job[p].sent = "none" /\ job[p].sends = 0
      ELSE job[p].sent # "none"

\* The message of p is handed to the provider in this step.
HandedOver(p) == job'[p].sends > job[p].sends

\* C20: no message is handed to the provider for a contact who is opted_out
\* unless it is sent with force_send; force_send is used by the reply of the
\* Compliance Gate only (the error handler never has a user_message to
\* send); and the reply of a cycle whose contact has opted out by the time
\* send_message checks is suppressed.
C20_OptOutSuppression ==
  [][/\ \A p \in Procs :
          /\ HandedOver(p) =>
               contacts[job[p].phone] # "opted_out" \/ job'[p].force
          /\ (job'[p].force /\ ~job[p].force) =>
               /\ pc[p] = "hi_send" /\ job[p].kind = "inbound"
               /\ Normalize(job[p].body) \in
                    OPT_OUT_KEYWORDS \cup OPT_IN_KEYWORDS \cup HELP_KEYWORDS
          /\ (pc[p] = "pim_send" /\ pc'[p] # pc[p]
                /\ contacts[job[p].phone] = "opted_out") =>
               /\ job'[p].sent = "suppressed" /\ ~HandedOver(p)
               /\ pc'[p] = "pim_unlock"
     /\ \A m \in UserMessages, ph \in Phones : ~HandleChatbotErrorSends(m, ph)]_vars

\* ================================================== claims C21 to C30
\* HTTP 429 or any 5xx, not a non-retryable code.
Transient5xx(r) ==
  (r.status = 429 \/ r.status \in 500..599) /\ r.code \notin {"21211", "21610"}

\* HTTP 429, 500, 502, 503 or 504, not a non-retryable code.
TransientListed(r) ==
  r.status \in {429, 500, 502, 503, 504} /\ r.code \notin {"21211", "21610"}

\* What a turn of the loop of send_message does with the response of the
\* provider, when every 5xx is taken as transient (any5xx) or only the
\* listed statuses are: at most
\* three calls; a transient error before the third call is retried; any other
\* provider error ends the call at once; the call ends exactly when the row
\* is marked sent or failed.
SendLoopContract(p, any5xx) ==
  (pc[p] = "pim_provider" /\ job'[p] # job[p]) =>
    LET r == job'[p].response
        n == job[p].attempt
        ended == pc'[p] # "pim_provider"
        transient == IF any5xx THEN Transient5xx(r) ELSE TransientListed(r)
    IN /\ n < 3 /\ job[p].sends = n /\ job'[p].sends = n + 1
       /\ r.kind # "none"
       /\ r.kind = "ok" => ended /\ job'[p].sent = "sent"
       /\ (r.kind = "twilio" /\ transient /\ n < 2) =>
            ~ended /\ job'[p].attempt = n + 1
       /\ (r.kind = "twilio" /\ ~transient) => ended /\ job'[p].sent = "failed"
       /\ (r.kind # "ok" /\ n = 2) => ended /\ job'[p].sent = "failed"
       /\ ended <=> job'[p].sent \in {"sent", "failed"}
       /\ ended => pc'[p] = "pim_unlock"

C22_EventuallySent ==
  \A i \in 1..MaxRetryMessages :
    (/\ i \in DOMAIN outbox.rows
     /\ outbox.rows[i].status = "failed"
     /\ outbox.rows[i].attempts = SendAttempts)
      ~> (i \in DOMAIN outbox.rows /\ outbox.rows[i].status = "sent")

\* C23: a MessageSid is handed to inbound processing at most once, however
\* many deliveries of it arrive and however they overlap.
C23_AtMostOnce ==
  \A sid \in Sids : hook.tasks[sid] <= 1

\* C24: get_fresh_alternatives(exclude_slot_ids = E) returns no slot of E,
\* available or not, and only slots whose is_available is true.
C24_ExcludesTaken ==
  query.call.fn = "get_fresh_alternatives" =>
    \A i \in DOMAIN query.call.result :
      /\ query.call.result[i] \notin query.call.exclude_slot_ids
      /\ query.store[query.call.result[i]].is_available

\* An available slot inside the window and of the asked provider is named in
\* the exclusion list, and a result has come back that is not empty.
C24_Witness ==
  /\ query.call.fn = "get_fresh_alternatives"
  /\ query.call.result # << >>
  /\ \E id \in query.call.exclude_slot_ids :
       /\ query.store[id].is_available
       /\ query.store[id].start_time >= query.call.date_from
       /\ query.call.provider_id # "none" =>
            query.store[id].provider_id = query.call.provider_id

\* The slots the contract of get_available_slots names for a call.
Eligible(store, call) ==
  {id \in DOMAIN store :
     /\ store[id].is_available
     /\ store[id].start_time >= call.date_from
     /\ EndTime(store[id]) + store[id].buffer_minutes <= call.date_to
     /\ call.provider_id # "none" => store[id].provider_id = call.provider_id}

\* C25: get_available_slots returns the first limit slots, ascending in
\* start_time, of the available slots that start at or after date_from, end
\* with their buffer by date_to and are of the provider asked for; the call
\* changes no slot and no appointment.
C25_AvailableSlots ==
  [][query'.call.fn = "get_available_slots" =>
       LET call == query'.call
           result == call.result
           eligible == Eligible(query.store, call)
       IN /\ Len(result) = Min(call.limit, Cardinality(eligible))
          /\ Range(result) \subseteq eligible
          /\ \A i, j \in DOMAIN result :
               i < j => /\ result[i] # result[j]
                        /\ query.store[result[i]].start_time
                             <= query.store[result[j]].start_time
          /\ \A id \in eligible \ Range(result) :
               \A i \in DOMAIN result :
                 query.store[result[i]].start_time <= query.store[id].start_time
          /\ query'.store = query.store
          /\ UNCHANGED <<is_available, appointments>>]_vars

\* The limit cut the list, the buffer kept a slot out that ends inside the
\* window, and the provider filter and the availability flag each kept one out.
C25_Witness ==
  /\ query.call.fn = "get_available_slots"
  /\ Len(query.call.result) = query.call.limit
  /\ Cardinality(Eligible(query.store, query.call)) > query.call.limit
  /\ \E id \in Rows :
       /\ query.store[id].is_available
       /\ query.store[id].start_time >= query.call.date_from
       /\ EndTime(query.store[id]) <= query.call.date_to
       /\ EndTime(query.store[id]) + query.store[id].buffer_minutes > query.call.date_to

\* The next state the transition table of idle gives for an answer o of the
\* classifier; alternatives_needed says whether RESCHEDULE asks for an
\* alternative slot to be there.
IdleTable(c, o, alternatives_needed) ==
  LET appt == LatestConfirmed(c)
      others == {s \in Slots : is_available[s] /\ s # appointments[appt].slot}
  IN CASE o.i1 = "BOOK" ->
            IF \E s \in Slots : is_available[s] THEN "showing_slots" ELSE "idle"
       [] o.i1 = "CANCEL" -> IF appt = 0 THEN "idle" ELSE "confirming_cancel"
       [] o.i1 = "RESCHEDULE" ->
            IF appt = 0 \/ (alternatives_needed /\ others = {})
            THEN "idle" ELSE "reschedule_show_slots"
       [] o.i1 \in {"QUESTION", "UNCLEAR"} ->
            IF o.needs_info THEN "awaiting_info" ELSE "idle"
       [] OTHER -> "idle"

\* A cycle that loaded the state idle runs _handle_idle: every answer of the
\* classifier leads where the table says, the answer it got included, without
\* a Booking Engine call.
IdleContract(p, alternatives_needed) ==
  (Handles(p) /\ job'[p].loaded.current_state = "idle") =>
    LET ph == job[p].phone
        context == job'[p].loaded.context
        answers == Answers("idle", job[p].body, context)
        n == job'[p].next
        appt == LatestConfirmed(ph)
    IN /\ pc'[p] = "pim_commit" /\ job'[p].op = "none"
       /\ UNCHANGED bookingVars
       /\ \A o \in answers :
            LET r == HandleIdle(ph, context, o.i1, o)
            IN r.op = "none" /\ r.current_state = IdleTable(ph, o, alternatives_needed)
       /\ \E o \in answers :
            o.i1 = job'[p].intent
              /\ n.current_state = IdleTable(ph, o, alternatives_needed)
       /\ n.current_state = "confirming_cancel" =>
            n.context.pending_appointment_id = appt
       /\ n.current_state = "reschedule_show_slots" =>
            /\ n.context.original_appointment_id = appt
            /\ appointments[appt].slot \notin Range(n.context.presented_slots)
            /\ \A i \in DOMAIN n.context.presented_slots :
                 is_available[n.context.presented_slots[i]]

\* C26: from idle, BOOK goes to showing_slots when a slot is available and
\* stays idle otherwise; CANCEL and RESCHEDULE stay idle without a confirmed
\* appointment, and otherwise go to confirming_cancel on the most recent
\* confirmed appointment and to reschedule_show_slots with alternatives that
\* exclude its slot; QUESTION and UNCLEAR go to awaiting_info when needs_info
\* is not empty and stay idle otherwise; CONFIRM, DENY and SELECT_SLOT stay
\* idle; the Booking Engine is not called.
C26_IdleAlwaysReschedules ==
  [][\A p \in Procs : IdleContract(p, FALSE)]_vars

\* C26, amended: as above, and RESCHEDULE with a confirmed appointment stays
\* idle when no other slot is available.
C26_IdleTransitions ==
  [][\A p \in Procs : IdleContract(p, TRUE)]_vars

\* RESCHEDULE arrived in idle for a contact whose confirmed appointment has
\* no alternative, and the cycle stays idle.
C26_Witness ==
  \E p \in Procs :
    /\ pc[p] = "pim_commit" /\ job[p].loaded.current_state = "idle"
    /\ job[p].intent = "RESCHEDULE"
    /\ LatestConfirmed(job[p].phone) # 0
    /\ job[p].next.current_state = "idle" /\ job[p].reply = "no_alternatives"

\* C27: a cycle that loads the state of a contact whose expires_at has passed
\* gets it reset (idle, empty context, no expires_at), so the message is
\* handled from idle and not by the handler of the stale state.
C27_ExpiredOnLoad ==
  [][\A p \in Procs :
       (Handles(p) /\ Elapsed(job[p].phone)) =>
         /\ job'[p].loaded.current_state = "idle"
         /\ job'[p].loaded.context = EmptyContext
         /\ job'[p].loaded.expires_at = 0]_vars

\* The context fields the fragment of a reply of _handle_idle names (besides
\* last_intent, which the model does not keep); every field for the replies
\* of the other handlers.
FragmentFields(reply) ==
  CASE reply \in {"nothing_to_cancel", "nothing_to_reschedule", "no_alternatives", "menu"}
         -> {"retry_count"}
    [] reply = "cancel_prompt" -> {"pending_appointment_id", "retry_count"}
    [] OTHER -> DOMAIN EmptyContext

\* C28: the fragment a handler returns is merged into the stored context: a
\* field the fragment does not name has after the cycle the value it had
\* before it.
C28_ShallowMerge ==
  [][\A p \in Procs :
       (pc[p] = "pim_commit" /\ pc'[p] # pc[p]) =>
         \A f \in DOMAIN EmptyContext \ FragmentFields(job[p].reply) :
           conv'[job[p].phone].context[f] = job[p].loaded.context[f]]_vars

\* C29: the reply of a cycle is sent after the per-contact lock is released:
\* no cycle is in send_message, at its opt-out check or between its provider
\* calls, while the key it set is in Redis.
C29_SendAfterUnlock ==
  \A p \in Procs :
    pc[p] \in {"pim_send", "pim_provider"} =>
      ~(job[p].lockAcq /\ lock[job[p].phone])

\* C30: the reschedule states do what the booking states do, with
\* reschedule_show_slots for showing_slots and confirming_reschedule for
\* confirming_booking: CANCEL and RESCHEDULE in the slot list and CANCEL in the
\* confirming state are handed to the idle handler; DENY in the confirming
\* state goes back to the slot list with the selection cleared; any other
\* answer than CONFIRM asks again; a selection that fails asks again twice
\* and resets to idle the third time; CONFIRM calls reschedule_appointment,
\* and a lost race goes back to the slot list with fresh alternatives (to
\* idle when there is none).
C30_RescheduleMirrorsBooking ==
  [][\A p \in Procs :
       LET L == job'[p].loaded
           i == job'[p].intent
           n == job'[p].next
       IN /\ (Handles(p) /\ L.current_state = "reschedule_show_slots") =>
               IF i \in {"CANCEL", "RESCHEDULE"}
               THEN job'[p].aiCalls = 2 /\ job'[p].parsed = -1
               ELSE /\ pc'[p] = "pim_commit"
                    /\ IF job'[p].parsed # 0
                       THEN /\ n.current_state = "confirming_reschedule"
                            /\ n.context = [L.context EXCEPT
                                              !.selected_slot_id = job'[p].parsed,
                                              !.retry_count = 0]
                       ELSE IF L.context.retry_count < MAX_RETRIES - 1
                       THEN /\ n.current_state = "reschedule_show_slots"
                            /\ n.context = [L.context EXCEPT !.retry_count = @ + 1]
                       ELSE n.current_state = "idle"
          /\ (Handles(p) /\ L.current_state = "confirming_reschedule") =>
               CASE i = "CANCEL" -> job'[p].aiCalls = 2
                 [] i = "DENY" ->
                      /\ pc'[p] = "pim_commit"
                      /\ n.current_state = "reschedule_show_slots"
                      /\ n.context = [L.context EXCEPT !.selected_slot_id = 0]
                 [] i = "CONFIRM" ->
                      (L.context.selected_slot_id # 0
                         /\ L.context.original_appointment_id # 0) =>
                        /\ job'[p].op = "reschedule"
                        /\ job'[p].slot = L.context.selected_slot_id
                        /\ job'[p].appt = L.context.original_appointment_id
                 [] OTHER ->
                      /\ pc'[p] = "pim_commit"
                      /\ n.current_state = "confirming_reschedule"
                      /\ n.context = L.context
          /\ (pc[p] = "pim_after" /\ pc'[p] = "pim_commit" /\ job[p].op = "reschedule"
                /\ job[p].result = "SlotUnavailableError") =>
               LET free == {s \in Slots : is_available[s] /\ s # job[p].slot}
               IN /\ Range(n.context.presented_slots) \subseteq free
                  /\ n.context.selected_slot_id = 0
                  /\ n.current_state =
                       IF free # {} THEN "reschedule_show_slots" ELSE "idle"]_vars

\* ================================================== claims C31 to C40
\* The answer a cycle gets from detect_intent when the classifier is down.
FallbackIntent(p) ==
  heuristic_intent_result(job[p].body,
                          ConversationStateArg(conv[job[p].phone].current_state,
                                               conv[job[p].phone].context),
                          conv[job[p].phone].context.presented_slots)

\* C31: with the classifier down, a cycle that finds the conversation in
\* confirming_booking, confirming_cancel or confirming_reschedule and whose
\* message is affirmative has the intent CONFIRM, so that the pending flow
\* goes on; the cycle raises nothing.
C31_FallbackConfirms ==
  [][\A p \in Procs :
       (/\ Handles(p)
        /\ job'[p].loaded.current_state \in
             {"confirming_booking", "confirming_cancel", "confirming_reschedule"}
        /\ Lower(job[p].body) = "yes"
        /\ job'[p].intent = FallbackIntent(p)) =>
         /\ job'[p].intent = "CONFIRM"
         /\ job'[p].error = "none"]_vars

\* C32: a message classified CANCEL that finds the conversation in
\* confirming_cancel cancels the pending appointment: the cycle calls
\* cancel_appointment for pending_appointment_id.
C32_CancelAgainCancels ==
  [][\A p \in Procs :
       (/\ Handles(p)
        /\ job'[p].loaded.current_state = "confirming_cancel"
        /\ job'[p].loaded.context.pending_appointment_id # 0
        /\ job'[p].intent = "CANCEL") =>
         /\ job'[p].op = "cancel"
         /\ job'[p].appt = job'[p].loaded.context.pending_appointment_id]_vars

\* The availability query over the week from date_from, without a limit,
\* then the slots of exclude_slot_ids removed and the list cut at limit.
AvailableMinus(store, exclude_slot_ids, date_from, limit, provider_id) ==
  LET keep(id) == id \notin exclude_slot_ids
  IN {Take(SelectSeq(seq, keep), limit) :
        seq \in get_available_slots(store, date_from, date_from + Week,
                                    provider_id, NumRows)}

\* C33: get_fresh_alternatives(E, date_from, limit, provider) returns what
\* get_available_slots(date_from, date_from + 7 days, provider) returns
\* without a limit, the slots of E removed and the list cut at limit; the
\* buffer condition end_time + buffer_minutes <= date_to is part of it.
C33_SameFiltering ==
  query.call.fn = "get_fresh_alternatives" =>
    query.call.result \in
      AvailableMinus(query.store, query.call.exclude_slot_ids, query.call.date_from,
                     query.call.limit, query.call.provider_id)

\* C34: a book_appointment call that has found its slot available under the
\* row lock succeeds and adds a confirmed appointment on the slot, also when
\* an appointment that was rescheduled away from the slot still references it.
C34_FreedSlotBookable ==
  [][\A p \in Procs :
       (job[p].op = "book" /\ pc[p] = "bk_flush" /\ pc'[p] # pc[p]) =>
         /\ job'[p].result = "ok"
         /\ Len(appointments') = Len(appointments) + 1
         /\ appointments'[Len(appointments')].slot = job[p].slot
         /\ appointments'[Len(appointments')].status = "confirmed"]_vars

\* C35: every slot whose is_available is false is the slot of at least one
\* confirmed appointment.
C35_UnavailableIsHeld ==
  \A s \in Slots : ~is_available[s] => ConfirmedOn(appointments, s) # {}

\* A cancelled appointment has left its slot open while a confirmed
\* appointment made by a reschedule holds another slot.
C35_Witness ==
  \E a, b \in DOMAIN appointments :
    /\ appointments[a].status = "cancelled" /\ is_available[appointments[a].slot]
    /\ appointments[b].status = "confirmed" /\ appointments[b].rescheduled_from_id # 0
    /\ ~is_available[appointments[b].slot]

\* The appointments made by rescheduling a.
Successors(a) ==
  {b \in DOMAIN appointments : appointments[b].rescheduled_from_id = a}

\* C36: the rescheduled_from_id links form linear chains: an appointment has
\* at most one successor, an appointment with a successor has the status
\* rescheduled, and a link points to a row inserted earlier (so there is no
\* cycle, and the row it points to is there).
C36_LinearChains ==
  \A a \in DOMAIN appointments :
    /\ Cardinality(Successors(a)) <= 1
    /\ Successors(a) # {} => appointments[a].status = "rescheduled"
    /\ appointments[a].rescheduled_from_id < a

\* C37: a reschedule_appointment call never waits for a lock it holds itself
\* (so it goes on to return or raise and to release its locks); a call whose
\* new slot is the slot of the appointment gets to the availability check.
C37_NoSelfWait ==
  \A p \in Procs :
    (job[p].op = "reschedule" /\ pc[p] = "rs_lock_second") =>
      slot_locks[serverOf[p]][SlotKey(Max(job[p].oldSlot, job[p].slot))] # p

\* A known contact whose first message asked to book: the cycle has stored
\* showing_slots with the open slots as presented_slots and has ended.
InitSelecting ==
  /\ is_available = [s \in Slots |-> TRUE]
  /\ appointments = << >>
  /\ slotRow = [s \in Slots |-> 0]
  /\ apptRow = [a \in ApptIds |-> 0]
  /\ slot_locks = [sv \in Servers |-> [k \in LockKeys |-> 0]]
  /\ pc = [p \in Procs |-> "idle"]
  /\ job = [p \in Procs |-> JobNone]
  /\ serverOf = [p \in Procs |-> "s1"]
  /\ jobs = 0
  /\ now = 1
  /\ conv = [ph \in Phones |->
               [current_state |-> "showing_slots",
                context |-> [EmptyContext EXCEPT
                               !.presented_slots = GetAvailableSlots(SlotLimit)],
                last_message_at |-> now, expires_at |-> now + ExpiryHours]]
  /\ sweep = [pc |-> "idle", expired |-> {}]
  /\ outbox = [tracked |-> FALSE, rows |-> << >>]
  /\ retry = [pc |-> "idle", queued |-> {}]
  /\ hook = NoHook
  /\ query = NoQuery
  /\ campaign = NoCampaign
  /\ lock = [ph \in Phones |-> FALSE]
  /\ messages = 1
  /\ contacts = [ph \in Phones |-> "opted_in"]

\* The contact's next messages, handled by the workers at once.  From
\* showing_slots they lead to no other Booking Engine call than
\* book_appointment.
NextSelecting ==
  \/ \E p \in Procs :
       \/ messages < 1 + MaxBurst /\ InboundStart(p, NumProcs)
       \/ GateSend(p) \/ AcquireLock(p) \/ ProcessMessage(p)
       \/ BookLock(p) \/ BookSelect(p) \/ BookFlush(p) \/ AfterCallStep(p)
       \/ CommitState(p) \/ SendResponse(p) \/ ProviderAttempt(p) \/ ReleaseLock(p) \/ Finish(p)
  \/ \E ph \in Phones : LockExpire(ph)

SpecSelecting == InitSelecting /\ [][NextSelecting]_vars

ConfirmingSlotStates == {"confirming_booking", "confirming_reschedule"}

\* C38: a stored conversation in confirming_booking or confirming_reschedule
\* has a selected_slot_id that is one of its own presented_slots.
C38_SelectedIsPresented ==
  \A ph \in Phones :
    conv[ph].current_state \in ConfirmingSlotStates =>
      conv[ph].context.selected_slot_id \in Range(conv[ph].context.presented_slots)

\* ----------------------------------------------------- process_campaign_batch
NumRecipients == 3
BatchSize == 2
MaxPauses == 1

Recipients == 1..NumRecipients

CampaignUnchanged ==
  UNCHANGED <<bookingVars, pc, job, jobs, serverOf, contacts, conv, lock, messages,
              clock, outbox, retry, hook, query>>

\* enqueue_job("process_campaign_batch", campaign_id, offset, batch_size,
\* _defer_by=...): wait names the recipient whose quiet hours the job sits
\* out, 0 a job that is due at once.
BatchJob(offset, wait) == [offset |-> offset, wait |-> wait]

Without(queue, k) == [i \in 1..(Len(queue) - 1) |-> IF i < k THEN queue[i] ELSE queue[i + 1]]

\* select(CampaignRecipient).where(campaign_id == campaign.id)
\*   .order_by(id).offset(offset).limit(batch_size)
BatchRecipients(offset, batch_size) ==
  [i \in 1..Max(0, Min(batch_size, NumRecipients - offset)) |-> offset + i]

\* process_campaign_batch up to its loop: a missing or paused campaign ends
\* the job; otherwise the campaign is set active and the batch is read.
CampaignBatchStart ==
  /\ campaign.run.pc = "idle"
  /\ \E k \in DOMAIN campaign.queue :
       LET j == campaign.queue[k] IN
         /\ IF j.wait = 0 THEN TRUE ELSE ~campaign.contacts[j.wait].quiet
         /\ IF campaign.status = "paused"
            THEN campaign' = [campaign EXCEPT !.queue = Without(@, k)]
            ELSE campaign' = [campaign EXCEPT
                   !.queue = Without(@, k),
                   !.status = "active",
                   !.run = [pc |-> "loop", offset |-> j.offset,
                            recipients |-> BatchRecipients(j.offset, BatchSize),
                            i |-> 1, delayed |-> FALSE]]
  /\ CampaignUnchanged

\* One pass of the loop over the batch: skip a contact who is not opted_in,
\* put the batch off at the same offset for a contact in quiet hours, or
\* send and record the outcome.
CampaignBatchRecipient ==
  /\ campaign.run.pc = "loop"
  /\ campaign.run.i <= Len(campaign.run.recipients)
  /\ LET r == campaign.run.recipients[campaign.run.i]
         contact == campaign.contacts[r]
     IN IF ~contact.opted_in
        THEN campaign' = [campaign EXCEPT !.recipients[r].status = "skipped",
                                          !.run.i = @ + 1]
        ELSE IF contact.quiet
        THEN campaign' = [campaign EXCEPT
               !.queue = Append(@, BatchJob(campaign.run.offset, r)),
               !.run.delayed = TRUE, !.run.pc = "end"]
        ELSE \/ campaign' = [campaign EXCEPT !.recipients[r].status = "sent",
                                             !.recipients[r].sends = @ + 1,
                                             !.run.i = @ + 1]
             \/ \* send_message raises
                campaign' = [campaign EXCEPT !.recipients[r].status = "failed",
                                             !.run.i = @ + 1]
  /\ CampaignUnchanged

\* After the loop: a full batch that was not put off chains the next one.
CampaignBatchEnd ==
  /\ \/ campaign.run.pc = "end"
     \/ campaign.run.pc = "loop" /\ campaign.run.i > Len(campaign.run.recipients)
  /\ campaign' = [campaign EXCEPT
       !.queue = IF ~campaign.run.delayed /\ Len(campaign.run.recipients) = BatchSize
                 THEN Append(@, BatchJob(campaign.run.offset + BatchSize, 0))
                 ELSE @,
       !.run = NoRun]
  /\ CampaignUnchanged

\* pause_campaign
PauseCampaign ==
  /\ campaign.status = "active" /\ campaign.pauses < MaxPauses
  /\ campaign' = [campaign EXCEPT !.status = "paused", !.pauses = @ + 1]
  /\ CampaignUnchanged

\* resume_campaign: the campaign is active again and a batch at offset 0 is
\* enqueued.
ResumeCampaign ==
  /\ campaign.status = "paused"
  /\ campaign' = [campaign EXCEPT !.status = "active",
                                  !.queue = Append(@, BatchJob(0, 0))]
  /\ CampaignUnchanged

\* The quiet hours of a contact's timezone end.
QuietHoursEnd(r) ==
  /\ campaign.contacts[r].quiet
  /\ campaign' = [campaign EXCEPT !.contacts[r].quiet = FALSE]
  /\ CampaignUnchanged

\* A contact sends STOP.
RecipientOptsOut(r) ==
  /\ campaign.contacts[r].opted_in
  /\ campaign' = [campaign EXCEPT !.contacts[r].opted_in = FALSE]
  /\ CampaignUnchanged

\* A scheduled campaign with respect_timezone set, its recipients pending,
\* and the first batch enqueued by execute_campaign.
InitCampaign ==
  /\ is_available = [s \in Slots |-> TRUE]
  /\ appointments = << >>
  /\ slotRow = [s \in Slots |-> 0]
  /\ apptRow = [a \in ApptIds |-> 0]
  /\ slot_locks = [sv \in Servers |-> [k \in LockKeys |-> 0]]
  /\ pc = [p \in Procs |-> "idle"]
  /\ job = [p \in Procs |-> JobNone]
  /\ serverOf = [p \in Procs |-> "s1"]
  /\ jobs = 0
  /\ conv = [ph \in Phones |-> NoState]
  /\ now = 1
  /\ sweep = [pc |-> "idle", expired |-> {}]
  /\ outbox = [tracked |-> FALSE, rows |-> << >>]
  /\ retry = [pc |-> "idle", queued |-> {}]
  /\ hook = NoHook
  /\ query = NoQuery
  /\ lock = [ph \in Phones |-> FALSE]
  /\ messages = 0
  /\ contacts = [ph \in Phones |-> "opted_in"]
  /\ \E cs \in [Recipients -> [opted_in : BOOLEAN, quiet : BOOLEAN]] :
       campaign = [status |-> "scheduled",
                   recipients |-> [r \in Recipients |-> [status |-> "pending", sends |-> 0]],
                   contacts |-> cs,
                   queue |-> <<BatchJob(0, 0)>>,
                   run |-> NoRun, pauses |-> 0]

NextCampaign ==
  \/ CampaignBatchStart \/ CampaignBatchRecipient \/ CampaignBatchEnd
  \/ PauseCampaign \/ ResumeCampaign
  \/ \E r \in Recipients : QuietHoursEnd(r) \/ RecipientOptsOut(r)

SpecCampaign == InitCampaign /\ [][NextCampaign]_vars

\* C39: no recipient of a campaign is sent the campaign message more than
\* once, whatever batches, deferrals, pauses and resumes the campaign sees.
C39_SentAtMostOnce ==
  \A r \in DOMAIN campaign.recipients : campaign.recipients[r].sends <= 1

\* ------------------------------------------------------- the lock key's TTL
\* Redis drops a key set with ex=CONTACT_LOCK_TTL once the seconds are over.
SpecBurstLive ==
  SpecBurst /\ \A ph \in Phones : WF_vars(LockExpire(ph))

\* C40: the key of a contact's lock never stays for ever: the cycle that set
\* it deletes it at its end, or the TTL removes it, so a later message of the
\* contact finds the key absent and can set it.
C40_LockFreed ==
  \A ph \in Phones : lock[ph] ~> ~lock[ph]

\* The key has outlived the cycle that set it: the delete failed.
C40_Witness ==
  \E ph \in Phones :
    /\ lock[ph]
    /\ \A p \in Procs : ~(pc[p] # "idle" /\ job[p].phone = ph /\ job[p].lockAcq)

====
